---- MODULE Spec2Model ----
(***************************************************************************)
(* A model of harnman's configuration store (src/src/common/               *)
(* config_manager.py): whole JSON documents kept as files                  *)
(* <CONFIG_DIR>/<name>.json, with add / delete / rename / list / read.     *)
(*                                                                         *)
(* Strings the code inspects character by character (names, file names,    *)
(* paths) are sequences of one-character strings.  A file's text is the    *)
(* sequence of JSON tokens json.dump writes; the indentation white space   *)
(* json.load skips is not represented.  Python dicts are functions from    *)
(* keys to values: dict equality ignores insertion order, and so does      *)
(* function equality.  The process is assumed to hold the permissions on   *)
(* the directories it touches (PermissionError is never raised).           *)
(***************************************************************************)
EXTENDS Integers, Sequences, FiniteSets, TLC

VARIABLES fs, prev, last, procs

vars == <<fs, prev, last, procs>>

(***************************************************************************)
(* Bounds.                                                                 *)
(***************************************************************************)
\* Most regular files the modelled runs create under or beside CONFIG_DIR.
MaxFiles == 2

(***************************************************************************)
(* Character strings.                                                      *)
(***************************************************************************)
Letters == {"a", "b", "s", "j", "o", "n", "t", "c", "f", "i", "g", "k", "m", "v"}

Digits == {"0", "1"}

\* The characters of the pattern ^[A-Za-z0-9_-]+$
NameChars == Letters \cup Digits \cup {"_", "-"}

Slash == "/"

DotJson == <<".", "j", "s", "o", "n">>

DotDot == <<".", ".">>

Dot == <<".">>

\* CONFIG_DIR = os.getenv("WRAPMAN_CONFIG_DIR", "config"): the default value
CONFIG_DIR == <<"c", "o", "n", "f", "i", "g">>

\* str.endswith
endswith(s, suffix) ==
    /\ Len(s) >= Len(suffix)
    /\ SubSeq(s, Len(s) - Len(suffix) + 1, Len(s)) = suffix

\* str.removesuffix
removesuffix(s, suffix) ==
    IF Len(suffix) > 0 /\ endswith(s, suffix)
    THEN SubSeq(s, 1, Len(s) - Len(suffix))
    ELSE s

\* f"{wrapper_name}.json"
config_filename(wrapper_name) == wrapper_name \o DotJson

\* os.path.join(a, b) for a non-empty a that does not end in a slash
path_join(a, b) ==
    IF Len(b) > 0 /\ b[1] = Slash THEN b ELSE a \o <<Slash>> \o b

\* os.path.join(CONFIG_DIR, f"{wrapper_name}.json")
file_path(wrapper_name) == path_join(CONFIG_DIR, config_filename(wrapper_name))

(***************************************************************************)
(* What the operating system makes of a path string: its components, with  *)
(* "", "." dropped and ".." stepping to the parent.  A resolved path is a    *)
(* sequence of components below the working directory <<>>.                 *)
(***************************************************************************)
RECURSIVE SplitFrom(_, _, _)
SplitFrom(s, i, cur) ==
    IF i > Len(s) THEN <<cur>>
    ELSE IF s[i] = Slash THEN <<cur>> \o SplitFrom(s, i + 1, <<>>)
    ELSE SplitFrom(s, i + 1, Append(cur, s[i]))

Split(s) == SplitFrom(s, 1, <<>>)

Parent(p) == SubSeq(p, 1, Len(p) - 1)

(***************************************************************************)
(* JSON values (Python objects) and JSON text.                             *)
(***************************************************************************)
\* A value is a record of the same five fields whatever its kind, so that any
\* two values can be compared: t the kind, s a string's characters, n a number (or a
\* boolean as 0 / 1), a an array's items, o an object's members.
EmptyDict == [c \in {} |-> 0]

JVal(t, s, n, a, o) == [t |-> t, s |-> s, n |-> n, a |-> a, o |-> o]

JStr(s) == JVal("str", s, 0, <<>>, EmptyDict)

JNum(n) == JVal("num", <<>>, n, <<>>, EmptyDict)

JBool(b) == JVal("bool", <<>>, IF b THEN 1 ELSE 0, <<>>, EmptyDict)

JNull == JVal("null", <<>>, 0, <<>>, EmptyDict)

JArr(a) == JVal("arr", <<>>, 0, a, EmptyDict)

JObj(o) == JVal("obj", <<>>, 0, <<>>, o)

\* A Python object json cannot serialise (a set, say)
PyObj == JVal("pyobj", <<>>, 0, <<>>, EmptyDict)

\* isinstance(data, dict)
IsDict(x) == x.t = "obj"

\* Tokens of JSON text
Punct(c) == [k |-> "punct", s |-> <<c>>, n |-> 0]

TStr(s) == [k |-> "str", s |-> s, n |-> 0]

TNum(n) == [k |-> "num", s |-> <<>>, n |-> n]

TLit(w) == [k |-> "lit", s |-> <<w>>, n |-> 0]

\* json.dump's encoder: the tokens written, in order, and whether it finished.
\* An object json cannot serialise raises TypeError after the tokens before it.
RECURSIVE Encode(_), EncodeItems(_, _), EncodeMembers(_, _)
Encode(x) ==
    CASE x.t = "str" -> [ok |-> TRUE, toks |-> <<TStr(x.s)>>]
      [] x.t = "num" -> [ok |-> TRUE, toks |-> <<TNum(x.n)>>]
      [] x.t = "bool" -> [ok |-> TRUE, toks |-> <<TLit(IF x.n = 1 THEN "true" ELSE "false")>>]
      [] x.t = "null" -> [ok |-> TRUE, toks |-> <<TLit("null")>>]
      [] x.t = "arr" ->
            LET r == EncodeItems(x.a, 1)
            IN  IF r.ok THEN [ok |-> TRUE, toks |-> <<Punct("[")>> \o r.toks \o <<Punct("]")>>]
                ELSE [ok |-> FALSE, toks |-> <<Punct("[")>> \o r.toks]
      [] x.t = "obj" ->
            LET r == EncodeMembers(x.o, DOMAIN x.o)
            IN  IF r.ok THEN [ok |-> TRUE, toks |-> <<Punct("{")>> \o r.toks \o <<Punct("}")>>]
                ELSE [ok |-> FALSE, toks |-> <<Punct("{")>> \o r.toks]
      [] OTHER -> [ok |-> FALSE, toks |-> <<>>]

EncodeItems(a, i) ==
    IF i > Len(a) THEN [ok |-> TRUE, toks |-> <<>>]
    ELSE LET sep == IF i > 1 THEN <<Punct(",")>> ELSE <<>>
             e == Encode(a[i])
         IN  IF ~e.ok THEN [ok |-> FALSE, toks |-> sep \o e.toks]
             ELSE LET r == EncodeItems(a, i + 1)
                  IN  [ok |-> r.ok, toks |-> sep \o e.toks \o r.toks]

EncodeMembers(o, keys) ==
    IF keys = {} THEN [ok |-> TRUE, toks |-> <<>>]
    ELSE LET key == CHOOSE c \in keys : TRUE
             sep == IF keys # DOMAIN o THEN <<Punct(",")>> ELSE <<>>
             head == sep \o <<TStr(key), Punct(":")>>
             e == Encode(o[key])
         IN  IF ~e.ok THEN [ok |-> FALSE, toks |-> head \o e.toks]
             ELSE LET r == EncodeMembers(o, keys \ {key})
                  IN  [ok |-> r.ok, toks |-> head \o e.toks \o r.toks]

\* Mutant of json_dump: json.dump(str(data), file), the text is one JSON string
json_dump_str(data) == Encode(JStr(<<"d", "i", "c", "t">>))

json_dump(data) == Encode(data)

\* json.load's parser: a value starting at token i, and the index after it.
Fail == [ok |-> FALSE, val |-> JNull, next |-> 0]

IsPunct(toks, i, c) == i <= Len(toks) /\ toks[i] = Punct(c)

RECURSIVE Decode(_, _), DecodeItems(_, _, _), DecodeMembers(_, _, _)
Decode(toks, i) ==
    IF i > Len(toks) THEN Fail
    ELSE LET tk == toks[i]
         IN  CASE tk.k = "str" -> [ok |-> TRUE, val |-> JStr(tk.s), next |-> i + 1]
               [] tk.k = "num" -> [ok |-> TRUE, val |-> JNum(tk.n), next |-> i + 1]
               [] tk.k = "lit" ->
                     [ok |-> TRUE, next |-> i + 1,
                      val |-> IF tk.s = <<"null">> THEN JNull ELSE JBool(tk.s = <<"true">>)]
               [] tk = Punct("[") ->
                     IF IsPunct(toks, i + 1, "]")
                     THEN [ok |-> TRUE, val |-> JArr(<<>>), next |-> i + 2]
                     ELSE DecodeItems(toks, i + 1, <<>>)
               [] tk = Punct("{") ->
                     IF IsPunct(toks, i + 1, "}")
                     THEN [ok |-> TRUE, val |-> JObj(EmptyDict), next |-> i + 2]
                     ELSE DecodeMembers(toks, i + 1, EmptyDict)
               [] OTHER -> Fail

DecodeItems(toks, i, acc) ==
    LET e == Decode(toks, i)
    IN  IF ~e.ok THEN Fail
        ELSE IF IsPunct(toks, e.next, ",")
             THEN DecodeItems(toks, e.next + 1, Append(acc, e.val))
        ELSE IF IsPunct(toks, e.next, "]")
             THEN [ok |-> TRUE, val |-> JArr(Append(acc, e.val)), next |-> e.next + 1]
        ELSE Fail

DecodeMembers(toks, i, acc) ==
    IF ~(i <= Len(toks) /\ toks[i].k = "str" /\ IsPunct(toks, i + 1, ":")) THEN Fail
    ELSE LET e == Decode(toks, i + 2)
             \* a repeated key keeps the last value
             got == [c \in DOMAIN acc \cup {toks[i].s} |->
                        IF c = toks[i].s THEN e.val ELSE acc[c]]
         IN  IF ~e.ok THEN Fail
             ELSE IF IsPunct(toks, e.next, ",") THEN DecodeMembers(toks, e.next + 1, got)
             ELSE IF IsPunct(toks, e.next, "}")
                  THEN [ok |-> TRUE, val |-> JObj(got), next |-> e.next + 1]
             ELSE Fail

\* json.load(file): the whole text must be one value (else JSONDecodeError)
json_load(toks) ==
    LET r == Decode(toks, 1)
    IN  IF r.ok /\ r.next = Len(toks) + 1
        THEN [ok |-> TRUE, val |-> r.val]
        ELSE [ok |-> FALSE, val |-> JNull]

(***************************************************************************)
(* The file system: a function from resolved paths to entries.  The working *)
(* directory <<>> always exists.                                           *)
(***************************************************************************)
File(text) == [kind |-> "file", text |-> text]

Dir == [kind |-> "dir", text |-> <<>>]

NoFs == [p \in {} |-> Dir]

IsDirAt(f, p) == p = <<>> \/ (p \in DOMAIN f /\ f[p].kind = "dir")

IsFileAt(f, p) == p \in DOMAIN f /\ f[p].kind = "file"

ExistsAt(f, p) == p = <<>> \/ p \in DOMAIN f

\* Path lookup: every directory the walk passes through must exist.
RECURSIVE WalkIn(_, _, _, _)
WalkIn(f, comps, i, acc) ==
    IF i > Len(comps) THEN [ok |-> TRUE, path |-> acc]
    ELSE IF ~IsDirAt(f, acc) THEN [ok |-> FALSE, path |-> acc]
    ELSE IF comps[i] = <<>> \/ comps[i] = Dot THEN WalkIn(f, comps, i + 1, acc)
    ELSE IF comps[i] = DotDot
         THEN IF Len(acc) > 0 /\ acc[Len(acc)] # DotDot
              THEN WalkIn(f, comps, i + 1, Parent(acc))
              ELSE WalkIn(f, comps, i + 1, Append(acc, DotDot))
    ELSE WalkIn(f, comps, i + 1, Append(acc, comps[i]))

Lookup(f, pathstr) == WalkIn(f, Split(pathstr), 1, <<>>)

os_path_exists(f, pathstr) ==
    LET r == Lookup(f, pathstr) IN r.ok /\ ExistsAt(f, r.path)

os_path_isdir(f, pathstr) ==
    LET r == Lookup(f, pathstr) IN r.ok /\ IsDirAt(f, r.path)

os_path_isfile(f, pathstr) ==
    LET r == Lookup(f, pathstr) IN r.ok /\ IsFileAt(f, r.path)

Without(f, gone) == [p \in DOMAIN f \ gone |-> f[p]]

WriteAt(f, p, text) == [q \in DOMAIN f \cup {p} |-> IF q = p THEN File(text) ELSE f[q]]

\* open(path, "w"): the file is created, or truncated if it exists
open_w(f, pathstr) ==
    LET r == Lookup(f, pathstr)
    IN  IF ~r.ok THEN [err |-> "FileNotFoundError", fs |-> f]
        ELSE IF IsDirAt(f, r.path) THEN [err |-> "IsADirectoryError", fs |-> f]
        ELSE [err |-> "none", fs |-> WriteAt(f, r.path, <<>>)]

\* Mutant of open_x: open(path, "w"), an existing file is truncated
open_x_truncating(f, pathstr) == open_w(f, pathstr)

\* Mutant of open_x: open(path, "a"), an existing file is opened as it is
open_a(f, pathstr) ==
    LET r == Lookup(f, pathstr)
    IN  IF ~r.ok THEN [err |-> "FileNotFoundError", fs |-> f]
        ELSE IF IsDirAt(f, r.path) THEN [err |-> "IsADirectoryError", fs |-> f]
        ELSE IF IsFileAt(f, r.path) THEN [err |-> "none", fs |-> f]
        ELSE [err |-> "none", fs |-> WriteAt(f, r.path, <<>>)]

\* open(path, "x"): O_CREAT | O_EXCL, one system call.  err is the Python
\* exception raised ("none": the file now exists, empty).
open_x(f, pathstr) ==
    LET r == Lookup(f, pathstr)
    IN  IF ~r.ok THEN [err |-> "FileNotFoundError", fs |-> f]
        ELSE IF ExistsAt(f, r.path) THEN [err |-> "FileExistsError", fs |-> f]
        ELSE [err |-> "none", fs |-> WriteAt(f, r.path, <<>>)]

\* file.write of the dumped text, flushed when the with block closes the file
write_text(f, pathstr, text) ==
    LET r == Lookup(f, pathstr)
    IN  IF r.ok /\ IsFileAt(f, r.path) THEN WriteAt(f, r.path, text) ELSE f

\* open(path, "r") and read
open_r(f, pathstr) ==
    LET r == Lookup(f, pathstr)
    IN  IF ~r.ok \/ ~ExistsAt(f, r.path) THEN [err |-> "FileNotFoundError", text |-> <<>>]
        ELSE IF IsDirAt(f, r.path) THEN [err |-> "IsADirectoryError", text |-> <<>>]
        ELSE [err |-> "none", text |-> f[r.path].text]

\* os.remove(path): unlink
os_remove(f, pathstr) ==
    LET r == Lookup(f, pathstr)
    IN  IF ~r.ok \/ ~ExistsAt(f, r.path) THEN [err |-> "FileNotFoundError", fs |-> f]
        ELSE IF IsDirAt(f, r.path) THEN [err |-> "IsADirectoryError", fs |-> f]
        ELSE [err |-> "none", fs |-> Without(f, {r.path})]

IsPrefix(p, q) == Len(p) <= Len(q) /\ SubSeq(q, 1, Len(p)) = p

\* Mutant of os_rename: the file is copied and the old one is left behind
os_rename_copy(f, oldstr, newstr) ==
    LET o == Lookup(f, oldstr)
        n == Lookup(f, newstr)
    IN  IF ~o.ok \/ ~n.ok \/ ~IsFileAt(f, o.path)
        THEN [err |-> "FileNotFoundError", fs |-> f]
        ELSE [err |-> "none", fs |-> WriteAt(f, n.path, f[o.path].text)]

\* os.rename(old, new): rename(2).  An existing regular file at new is
\* replaced; a directory moves with everything below it.
os_rename(f, oldstr, newstr) ==
    LET o == Lookup(f, oldstr)
        n == Lookup(f, newstr)
    IN  IF ~o.ok \/ ~n.ok \/ o.path = <<>> \/ o.path \notin DOMAIN f
        THEN [err |-> "FileNotFoundError", fs |-> f]
        ELSE IF o.path = n.path THEN [err |-> "none", fs |-> f]
        ELSE IF IsFileAt(f, o.path)
             THEN IF IsDirAt(f, n.path) THEN [err |-> "IsADirectoryError", fs |-> f]
                  ELSE [err |-> "none",
                        fs |-> WriteAt(Without(f, {o.path}), n.path, f[o.path].text)]
        ELSE IF IsFileAt(f, n.path) THEN [err |-> "NotADirectoryError", fs |-> f]
        ELSE IF IsPrefix(o.path, n.path) \/ \E q \in DOMAIN f : q # n.path /\ IsPrefix(n.path, q)
             THEN [err |-> "OSError", fs |-> f]
        ELSE LET moved == {q \in DOMAIN f : IsPrefix(o.path, q)}
                 to(q) == n.path \o SubSeq(q, Len(o.path) + 1, Len(q))
                 rest == Without(f, moved \cup {n.path})
             IN  [err |-> "none",
                  fs |-> [q \in DOMAIN rest \cup {to(m) : m \in moved} |->
                            IF q \in DOMAIN rest THEN rest[q]
                            ELSE f[CHOOSE m \in moved : to(m) = q]]]

\* os.listdir(path): the names in the directory, as a set (the order is the
\* file system's)
os_listdir(f, pathstr) ==
    LET r == Lookup(f, pathstr)
    IN  {q[Len(q)] : q \in {e \in DOMAIN f : Len(e) = Len(r.path) + 1 /\ IsPrefix(r.path, e)}}

RECURSIVE Orderings(_)
Orderings(S) ==
    IF S = {} THEN {<<>>}
    ELSE UNION {{<<x>> \o rest : rest \in Orderings(S \ {x})} : x \in S}

(***************************************************************************)
(* Outcomes of a call: the value returned, or the exception raised.        *)
(***************************************************************************)
Ok == [exc |-> "none", msg |-> "True"]

Raise(exc, msg) == [exc |-> exc, msg |-> msg]

DirectoryNotFound == Raise("FileNotFoundError", "Directory not found")

NotFound == Raise("FileNotFoundError", "Config file not found")

AlreadyExists == Raise("FileExistsError", "Config file already exists")

\* The error the tests expect for a name outside ^[A-Za-z0-9_-]+$
InvalidName == Raise("ValueError", "Invalid harness name")

(***************************************************************************)
(* config_manager.py, one operator per function: the outcome, the file     *)
(* system afterwards and the value returned.                               *)
(***************************************************************************)
Out(res, f, val) == [res |-> res, fs |-> f, val |-> val, names |-> <<>>]

add_config(f, wrapper_name, data) ==
    IF ~IsDict(data)
    THEN Out(Raise("TypeError", "Parameter 'data' must be a dictionary"), f, JNull)
    ELSE IF ~os_path_isdir(f, CONFIG_DIR) THEN Out(DirectoryNotFound, f, JNull)
    ELSE LET o == open_x(f, file_path(wrapper_name))
             d == json_dump(data)
         IN  CASE o.err = "FileExistsError" -> Out(AlreadyExists, f, JNull)
               [] o.err = "none" /\ d.ok ->
                     Out(Ok, write_text(o.fs, file_path(wrapper_name), d.toks), JBool(TRUE))
               [] o.err = "none" /\ ~d.ok ->
                     Out(Raise("TypeError", "Invalid data type in JSON"),
                         write_text(o.fs, file_path(wrapper_name), d.toks), JNull)
               [] OTHER -> Out(Raise("OSError", "Filesystem error while creating"), f, JNull)

\* Mutant of delete_config: a missing file is not an error
delete_config_missing_ok(f, wrapper_name) ==
    IF ~os_path_isdir(f, CONFIG_DIR) THEN Out(DirectoryNotFound, f, JNull)
    ELSE LET r == os_remove(f, file_path(wrapper_name))
         IN  IF r.err = "IsADirectoryError"
             THEN Out(Raise("IsADirectoryError", "is a directory, not a file"), f, JNull)
             ELSE Out(Ok, r.fs, JBool(TRUE))

delete_config(f, wrapper_name) ==
    IF ~os_path_isdir(f, CONFIG_DIR) THEN Out(DirectoryNotFound, f, JNull)
    ELSE LET r == os_remove(f, file_path(wrapper_name))
         IN  CASE r.err = "none" -> Out(Ok, r.fs, JBool(TRUE))
               [] r.err = "FileNotFoundError" -> Out(NotFound, f, JNull)
               [] r.err = "IsADirectoryError" ->
                     Out(Raise("IsADirectoryError", "is a directory, not a file"), f, JNull)
               [] OTHER -> Out(Raise("OSError", "Filesystem error while deleting"), f, JNull)

\* Mutant of rename_config: the test of the new name is missing
rename_config_unchecked(f, old_wrapper, new_wrapper) ==
    IF ~os_path_isdir(f, CONFIG_DIR) THEN Out(DirectoryNotFound, f, JNull)
    ELSE IF ~os_path_exists(f, file_path(old_wrapper)) THEN Out(NotFound, f, JNull)
    ELSE IF old_wrapper = new_wrapper THEN Out(Ok, f, JBool(TRUE))
    ELSE LET r == os_rename(f, file_path(old_wrapper), file_path(new_wrapper))
         IN  IF r.err = "none" THEN Out(Ok, r.fs, JBool(TRUE))
             ELSE Out(Raise("OSError", "Filesystem error while renaming"), f, JNull)

\* Mutant of rename_config: equal names are tested after the new name
rename_config_same_last(f, old_wrapper, new_wrapper) ==
    IF ~os_path_isdir(f, CONFIG_DIR) THEN Out(DirectoryNotFound, f, JNull)
    ELSE IF ~os_path_exists(f, file_path(old_wrapper)) THEN Out(NotFound, f, JNull)
    ELSE IF os_path_exists(f, file_path(new_wrapper)) THEN Out(AlreadyExists, f, JNull)
    ELSE IF old_wrapper = new_wrapper THEN Out(Ok, f, JBool(TRUE))
    ELSE LET r == os_rename(f, file_path(old_wrapper), file_path(new_wrapper))
         IN  IF r.err = "none" THEN Out(Ok, r.fs, JBool(TRUE))
             ELSE Out(Raise("OSError", "Filesystem error while renaming"), f, JNull)

rename_config(f, old_wrapper, new_wrapper) ==
    IF ~os_path_isdir(f, CONFIG_DIR) THEN Out(DirectoryNotFound, f, JNull)
    ELSE IF ~os_path_exists(f, file_path(old_wrapper)) THEN Out(NotFound, f, JNull)
    ELSE IF old_wrapper = new_wrapper THEN Out(Ok, f, JBool(TRUE))
    ELSE IF os_path_exists(f, file_path(new_wrapper)) THEN Out(AlreadyExists, f, JNull)
    ELSE LET r == os_rename(f, file_path(old_wrapper), file_path(new_wrapper))
         IN  IF r.err = "none" THEN Out(Ok, r.fs, JBool(TRUE))
             ELSE Out(Raise("OSError", "Filesystem error while renaming"), f, JNull)

\* Mutant of is_listed: the isfile test is missing
is_listed_any_kind(f, filename) == endswith(filename, DotJson)

\* The condition of list_config's comprehension
is_listed(f, filename) ==
    /\ endswith(filename, DotJson)
    /\ os_path_isfile(f, path_join(CONFIG_DIR, filename))

\* The comprehension of list_config over the sequence os.listdir returned
RECURSIVE list_names(_, _, _)
list_names(f, listing, i) ==
    IF i > Len(listing) THEN <<>>
    ELSE IF is_listed(f, listing[i])
         THEN <<removesuffix(listing[i], DotJson)>> \o list_names(f, listing, i + 1)
         ELSE list_names(f, listing, i + 1)

\* Mutant of list_config: the isdir test is missing, os.listdir raises and
\* the except OSError clause rewraps it
list_config_unchecked(f, listing) ==
    IF ~os_path_isdir(f, CONFIG_DIR)
    THEN Out(Raise("OSError", "Filesystem error while accessing"), f, JNull)
    ELSE [Out(Ok, f, JNull) EXCEPT !.names = list_names(f, listing, 1)]

list_config(f, listing) ==
    IF ~os_path_isdir(f, CONFIG_DIR) THEN Out(DirectoryNotFound, f, JNull)
    ELSE [Out(Ok, f, JNull) EXCEPT !.names = list_names(f, listing, 1)]

read_config(f, wrapper_name) ==
    IF ~os_path_isdir(f, CONFIG_DIR) THEN Out(DirectoryNotFound, f, JNull)
    ELSE IF ~os_path_exists(f, file_path(wrapper_name)) THEN Out(NotFound, f, JNull)
    ELSE LET r == open_r(f, file_path(wrapper_name))
             j == json_load(r.text)
         IN  IF r.err # "none" THEN Out(Raise("OSError", "Filesystem error while reading"), f, JNull)
             ELSE IF ~j.ok THEN Out(Raise("ValueError", "Invalid JSON format"), f, JNull)
             ELSE Out(Ok, f, j.val)

(***************************************************************************)
(* Inputs.                                                                 *)
(***************************************************************************)
\* Names callers pass: two identifiers, and three names outside the pattern
\* (a space, a step to the parent directory, a path into a subdirectory).
Names ==
    { <<"a">>, <<"b">>, <<" ">>,
      <<".", ".", "/", "a">>, <<"s", ".", "j", "s", "o", "n", "/", "a">> }

\* ^[A-Za-z0-9_-]+$
IsValidName(name) == Len(name) > 0 /\ \A i \in 1..Len(name) : name[i] \in NameChars

ValidNames == {n \in Names : IsValidName(n)}

D1 == JObj(<<"k">> :> JStr(<<"v">>))

D2 ==
    JObj(<<"k">> :> JObj(EmptyDict)
         @@ <<"m">> :> JArr(<<JNum(1), JBool(TRUE), JNull, JStr(<<"v">>)>>))

\* Payloads callers pass: two object documents, a list, and a dict holding a
\* value json cannot serialise.
Data == {D1, D2, JArr(<<JStr(<<"v">>)>>), JObj(<<"k">> :> PyObj)}

\* The object documents: dicts json serialises
RECURSIVE IsJson(_)
IsJson(x) ==
    CASE x.t = "arr" -> \A i \in 1..Len(x.a) : IsJson(x.a[i])
      [] x.t = "obj" -> \A c \in DOMAIN x.o : IsJson(x.o[c])
      [] OTHER -> x.t # "pyobj"

Docs == {d \in Data : IsDict(d) /\ IsJson(d)}

(***************************************************************************)
(* Directories the runs start from: no configuration directory; an empty   *)
(* one; one holding entries that are not documents (a file "t" without the *)
(* suffix, a subdirectory "s.json").                                       *)
(***************************************************************************)
EmptyConfigDir == (<<CONFIG_DIR>> :> Dir)

ForeignConfigDir ==
    (<<CONFIG_DIR>> :> Dir)
    @@ (<<CONFIG_DIR, <<"t">>>> :> File(<<TStr(<<"v">>)>>))
    @@ (<<CONFIG_DIR, <<"s">> \o DotJson>> :> Dir)

InitialFs == {NoFs, EmptyConfigDir, ForeignConfigDir}

NumFiles(f) == Cardinality({p \in DOMAIN f : f[p].kind = "file"})

\* The last call: its arguments (name, new, path, data; parts, the pieces a
\* command string was put together from; args, the parsed command line of a
\* command-line run), its outcome (res, val, names), the
\* shell commands it ran with their results (shell), what it wrote to the
\* standard streams and, for a command-line run, its exit status, and the
\* paths it passed to open (opened).
NoCall ==
    [op |-> "none", name |-> <<>>, new |-> <<>>, path |-> <<>>, data |-> JNull,
     res |-> Ok, val |-> JNull, names |-> <<>>,
     stdout |-> <<>>, stderr |-> <<>>, code |-> 0, shell |-> <<>>,
     parts |-> [plain |-> <<>>, cmds |-> <<>>], opened |-> <<>>,
     args |-> [list |-> FALSE, json |-> FALSE, fcmd |-> <<>>, bcmd |-> <<>>, ccmd |-> <<>>]]

Call(op, name, new, data, out) ==
    [NoCall EXCEPT !.op = op, !.name = name, !.new = new, !.data = data,
                   !.res = out.res, !.val = out.val, !.names = out.names]

\* A file descriptor: the resolved path of the file it is open on; open is
\* false before the open, and again once that file has been unlinked
NoFd == [open |-> FALSE, path |-> <<>>]

\* One caller of the concurrent runs: where it stands in its call (pc), the
\* call and its arguments, the descriptor it holds, and its outcome once pc
\* is "done"
Idle ==
    [pc |-> "start", op |-> "none", name |-> <<>>, new |-> <<>>, path |-> <<>>,
     data |-> JNull, res |-> Ok, fd |-> NoFd]

Procs == {1, 2}

Init ==
    /\ fs \in InitialFs
    /\ prev = fs
    /\ last = NoCall
    /\ procs = [p \in Procs |-> Idle]

(***************************************************************************)
(* Sequential runs: one action per call, the whole call.  prev is the file *)
(* system the call started from, last the call and its outcome.            *)
(***************************************************************************)
AddConfig ==
    \E name \in Names, data \in Data :
        LET out == add_config(fs, name, data)
        IN  /\ NumFiles(out.fs) <= MaxFiles + NumFiles(ForeignConfigDir)
            /\ fs' = out.fs
            /\ prev' = fs
            /\ last' = Call("add_config", name, <<>>, data, out)
            /\ UNCHANGED procs

DeleteConfig ==
    \E name \in Names :
        LET out == delete_config(fs, name)
        IN  /\ fs' = out.fs
            /\ prev' = fs
            /\ last' = Call("delete_config", name, <<>>, JNull, out)
            /\ UNCHANGED procs

RenameConfig ==
    \E old \in Names, new \in Names :
        LET out == rename_config(fs, old, new)
        IN  /\ fs' = out.fs
            /\ prev' = fs
            /\ last' = Call("rename_config", old, new, JNull, out)
            /\ UNCHANGED procs

ListConfig ==
    \E listing \in Orderings(os_listdir(fs, CONFIG_DIR)) :
        LET out == list_config(fs, listing)
        IN  /\ fs' = out.fs
            /\ prev' = fs
            /\ last' = Call("list_config", <<>>, <<>>, JNull, out)
            /\ UNCHANGED procs

ReadConfig ==
    \E name \in Names :
        LET out == read_config(fs, name)
        IN  /\ fs' = out.fs
            /\ prev' = fs
            /\ last' = Call("read_config", name, <<>>, JNull, out)
            /\ UNCHANGED procs

Next == AddConfig \/ DeleteConfig \/ RenameConfig \/ ListConfig \/ ReadConfig

Spec == Init /\ [][Next]_vars

(***************************************************************************)
(* Concurrent runs: two callers, each one call of add_config, interleaved  *)
(* at the system calls.  A caller's steps are the isinstance test, the     *)
(* test of the directory, the exclusive open and the dump that the close   *)
(* of the with block flushes.                                              *)
(***************************************************************************)
Goto(p, pc, res) == procs' = [procs EXCEPT ![p].pc = pc, ![p].res = res]

\* The call ends, and its descriptor is closed
Finish(p, res) == procs' = [procs EXCEPT ![p].pc = "done", ![p].res = res, ![p].fd = NoFd]

\* The open succeeded: the caller holds a descriptor on the file at pathstr
Opened(p, pc, f, pathstr) ==
    procs' = [procs EXCEPT ![p].pc = pc,
                           ![p].fd = [open |-> TRUE, path |-> Lookup(f, pathstr).path]]

\* write(fd, text) through a descriptor at offset 0: what the file held
\* beyond the text stays; nothing in the directory tree changes when the
\* file has been unlinked
write_fd(f, fd, text) ==
    IF fd.open /\ IsFileAt(f, fd.path)
    THEN WriteAt(f, fd.path, text \o SubSeq(f[fd.path].text, Len(text) + 1, Len(f[fd.path].text)))
    ELSE f

\* add_config is called; line 17
AddEnter(p) ==
    /\ procs[p].pc = "start"
    /\ \E name \in Names, data \in Data :
          procs' = [procs EXCEPT ![p] =
                      IF IsDict(data)
                      THEN [pc |-> "isdir", op |-> "add_config", name |-> name,
                            new |-> <<>>, path |-> <<>>, data |-> data, res |-> Ok,
                            fd |-> NoFd]
                      ELSE [pc |-> "done", op |-> "add_config", name |-> name,
                            new |-> <<>>, path |-> <<>>, data |-> data, fd |-> NoFd,
                            res |-> Raise("TypeError", "Parameter 'data' must be a dictionary")]]
    /\ UNCHANGED <<fs, prev, last>>

\* line 23
AddCheckDir(p) ==
    /\ procs[p].pc = "isdir"
    /\ IF os_path_isdir(fs, CONFIG_DIR)
       THEN Goto(p, "open", Ok)
       ELSE Finish(p, DirectoryNotFound)
    /\ UNCHANGED <<fs, prev, last>>

\* line 27
AddOpen(p) ==
    /\ procs[p].pc = "open"
    /\ LET o == open_x(fs, file_path(procs[p].name))
       IN  /\ fs' = o.fs
           /\ CASE o.err = "none" -> Opened(p, "dump", o.fs, file_path(procs[p].name))
                [] o.err = "FileExistsError" -> Finish(p, AlreadyExists)
                [] OTHER -> Finish(p, Raise("OSError", "Filesystem error while creating"))
    /\ UNCHANGED <<prev, last>>

\* lines 28 and 35-36
AddDump(p) ==
    /\ procs[p].pc = "dump"
    /\ LET d == json_dump(procs[p].data)
       IN  /\ fs' = write_fd(fs, procs[p].fd, d.toks)
           /\ IF d.ok THEN Finish(p, Ok)
              ELSE Finish(p, Raise("TypeError", "Invalid data type in JSON"))
    /\ UNCHANGED <<prev, last>>

NextConc == \E p \in Procs : AddEnter(p) \/ AddCheckDir(p) \/ AddOpen(p) \/ AddDump(p)

SpecConc == Init /\ [][NextConc]_vars

(***************************************************************************)
(* Properties.  In a sequential run, last is the call just made, prev the   *)
(* file system it started from and fs the one it left.                     *)
(***************************************************************************)
Called(op) == last.op = op

DirBefore == os_path_isdir(prev, CONFIG_DIR)

\* A document named name was stored when the call started
DocBefore(name) == os_path_isfile(prev, file_path(name))

AbsentBefore(name) == ~os_path_exists(prev, file_path(name))

\* C1: add_config(n, d) of an object document d under a valid identifier n
\* that names no document succeeds, and read_config(n) then returns a
\* document equal to d.
C1_AddThenRead ==
    (/\ Called("add_config")
     /\ IsValidName(last.name)
     /\ last.data \in Docs
     /\ DirBefore
     /\ AbsentBefore(last.name))
    => /\ last.res = Ok
       /\ read_config(fs, last.name).res = Ok
       /\ read_config(fs, last.name).val = last.data

C1_Witness ==
    /\ Called("add_config")
    /\ IsValidName(last.name)
    /\ last.data = D2
    /\ AbsentBefore(last.name)
    /\ last.res = Ok
    /\ read_config(fs, last.name).val = D2

\* C2: add_config(n, d2) when a document named n is stored fails with
\* AlreadyExists and leaves every file as it was: the stored document is still
\* the first one.
C2_AddExistingFails ==
    (/\ Called("add_config")
     /\ IsValidName(last.name)
     /\ IsDict(last.data)
     /\ DocBefore(last.name))
    => /\ last.res = AlreadyExists
       /\ fs = prev

C2_Witness ==
    /\ Called("add_config")
    /\ IsValidName(last.name)
    /\ last.data = D2
    /\ DocBefore(last.name)
    /\ last.res = AlreadyExists
    /\ read_config(fs, last.name).res = Ok
    /\ read_config(fs, last.name).val = D1

\* C3: add_config with a name outside the pattern fails with InvalidName and
\* creates no file, inside or outside the configuration directory.
C3_InvalidNameRejected ==
    (/\ Called("add_config")
     /\ ~IsValidName(last.name)
     /\ IsDict(last.data)
     /\ DirBefore)
    => /\ last.res = InvalidName
       /\ fs = prev

\* C5: rename_config(a, b) between two stored documents, a # b, fails with
\* AlreadyExists and leaves every file as it was.
C5_RenameOntoExistingFails ==
    (/\ Called("rename_config")
     /\ last.name # last.new
     /\ DocBefore(last.name)
     /\ DocBefore(last.new))
    => /\ last.res = AlreadyExists
       /\ fs = prev

C5_Witness ==
    /\ Called("rename_config")
    /\ last.name # last.new
    /\ DocBefore(last.name)
    /\ DocBefore(last.new)
    /\ open_r(prev, file_path(last.name)).text # open_r(prev, file_path(last.new)).text
    /\ last.res = AlreadyExists

\* C6 as stated: rename_config(a, a) returns success and changes nothing,
\* whether or not a document named a is stored.
C6_RenameSameAlwaysSucceeds ==
    (/\ Called("rename_config")
     /\ last.name = last.new
     /\ DirBefore)
    => /\ last.res = Ok
       /\ fs = prev

\* C6 as amended: rename_config(a, a) changes nothing; it returns success when
\* a file named a is stored and fails with NotFound when none is.
C6_RenameSame ==
    (/\ Called("rename_config")
     /\ last.name = last.new
     /\ DirBefore)
    => /\ fs = prev
       /\ last.res = IF AbsentBefore(last.name) THEN NotFound ELSE Ok

C6_Witness ==
    /\ Called("rename_config")
    /\ last.name = last.new
    /\ DocBefore(last.name)
    /\ last.res = Ok
    /\ fs = prev

\* C7: a successful rename_config(a, b), a # b, leaves nothing under a, puts
\* the former file of a, text unchanged, under b and changes no other file; it
\* succeeds whenever a is stored and b is not; with nothing stored under a it
\* fails with NotFound and changes nothing.
C7_Rename ==
    (Called("rename_config") /\ DirBefore)
    => LET old == Lookup(prev, file_path(last.name)).path
           new == Lookup(prev, file_path(last.new)).path
       IN  /\ AbsentBefore(last.name) => (last.res = NotFound /\ fs = prev)
           /\ (last.res = Ok /\ last.name # last.new) =>
                 /\ ~os_path_exists(fs, file_path(last.name))
                 /\ old \in DOMAIN prev /\ new \in DOMAIN fs
                 /\ fs[new] = prev[old]
                 /\ DOMAIN fs = (DOMAIN prev \ {old}) \cup {new}
                 /\ \A p \in DOMAIN fs \ {new} : fs[p] = prev[p]
           /\ (/\ IsValidName(last.name) /\ IsValidName(last.new)
               /\ last.name # last.new
               /\ DocBefore(last.name) /\ AbsentBefore(last.new)) => last.res = Ok

C7_Witness ==
    /\ Called("rename_config")
    /\ last.name # last.new
    /\ last.res = Ok
    /\ read_config(prev, last.name).res = Ok
    /\ read_config(fs, last.new) = [read_config(prev, last.name) EXCEPT !.fs = fs]
    /\ read_config(fs, last.name).res = NotFound
    /\ NumFiles(fs) > NumFiles(ForeignConfigDir)

\* C8: delete_config(n) of a stored document removes that file and no other,
\* after which read_config(n) fails with NotFound; with nothing stored under
\* n it fails with NotFound and changes nothing.
C8_Delete ==
    (Called("delete_config") /\ DirBefore)
    => /\ DocBefore(last.name) =>
             /\ last.res = Ok
             /\ fs = Without(prev, {Lookup(prev, file_path(last.name)).path})
             /\ read_config(fs, last.name).res = NotFound
       /\ AbsentBefore(last.name) => (last.res = NotFound /\ fs = prev)

C8_Witness ==
    /\ Called("delete_config")
    /\ DocBefore(last.name)
    /\ last.res = Ok
    /\ read_config(fs, last.name).res = NotFound
    /\ NumFiles(fs) > NumFiles(ForeignConfigDir)

\* C9: list_config never returns an identifier outside the pattern.
C9_ListOnlyValidNames ==
    (Called("list_config") /\ last.res = Ok)
    => \A i \in 1..Len(last.names) : IsValidName(last.names[i])

\* Every regular file of the configuration directory that ends in ".json"
\* has an identifier as its stem: only valid names were added or renamed to
OnlyValidStems(f) ==
    \A e \in os_listdir(f, CONFIG_DIR) :
        (endswith(e, DotJson) /\ os_path_isfile(f, path_join(CONFIG_DIR, e)))
        => IsValidName(removesuffix(e, DotJson))

Range(seq) == {seq[i] : i \in 1..Len(seq)}

\* C10: in a configuration directory where only valid names were used,
\* list_config returns each identifier of a stored document once and nothing
\* else: no file without the suffix, no subdirectory.
C10_ListIsStoredSet ==
    (Called("list_config") /\ DirBefore /\ OnlyValidStems(prev))
    => /\ last.res = Ok
       /\ Range(last.names) = {n \in ValidNames : os_path_isfile(fs, file_path(n))}
       /\ Len(last.names) = Cardinality(Range(last.names))

C10_Witness ==
    /\ Called("list_config")
    /\ OnlyValidStems(prev)
    /\ prev # EmptyConfigDir
    /\ os_path_isdir(prev, path_join(CONFIG_DIR, <<"s">> \o DotJson))
    /\ Range(last.names) = ValidNames
    /\ Len(last.names) = Cardinality(ValidNames)

(***************************************************************************)
(* Properties of the concurrent runs.                                      *)
(***************************************************************************)
\* Both callers added object documents under the same valid identifier
SameNameRace ==
    /\ \A p \in Procs : procs[p].pc = "done" /\ procs[p].data \in Docs
    /\ procs[1].name = procs[2].name
    /\ IsValidName(procs[1].name)
    /\ os_path_isdir(fs, CONFIG_DIR)

\* C4: of two concurrent add_config calls for the same name, in every
\* interleaving one succeeds and the other fails with AlreadyExists, and the
\* stored document is the one the successful caller passed.
C4_ExclusiveAdd ==
    SameNameRace
    => \E w \in Procs :
          /\ procs[w].res = Ok
          /\ \A l \in Procs \ {w} : procs[l].res = AlreadyExists
          /\ read_config(fs, procs[w].name).res = Ok
          /\ read_config(fs, procs[w].name).val = procs[w].data

C4_Witness ==
    /\ SameNameRace
    /\ procs[1].data # procs[2].data
    /\ procs[2].res = Ok
    /\ procs[1].res = AlreadyExists
    /\ read_config(fs, procs[2].name).val = procs[2].data

(***************************************************************************)
(* The field editor (src/src/common/config_editor.py): one field of a      *)
(* stored document, addressed by a dotted path, read, set or deleted.      *)
(***************************************************************************)
\* config_editor's CONFIG_DIR = os.getenv("WRAPMAN_CONFIG_DIR",
\* "assets/configs"): the default value
editor_CONFIG_DIR ==
    <<"a", "s", "s", "e", "t", "s", "/", "c", "o", "n", "f", "i", "g", "s">>

\* str.split(sep) for a one-character sep: the pieces between the separators,
\* empty pieces kept
RECURSIVE split_from(_, _, _, _)
split_from(s, sep, i, cur) ==
    IF i > Len(s) THEN <<cur>>
    ELSE IF s[i] = sep THEN <<cur>> \o split_from(s, sep, i + 1, <<>>)
    ELSE split_from(s, sep, i + 1, Append(cur, s[i]))

split(s, sep) == split_from(s, sep, 1, <<>>)

\* sub in s, for two strings
IsSubstring(sub, s) ==
    \E i \in 1..(Len(s) + 1) :
        i + Len(sub) - 1 <= Len(s) /\ SubSeq(s, i, i + Len(sub) - 1) = sub

\* key in ref, for a string key: membership in a dict's keys, substring of a
\* string, element of a list; a number, a boolean or None is not iterable
\* (err: TypeError)
contains(ref, key) ==
    CASE ref.t = "obj" -> [err |-> FALSE, val |-> key \in DOMAIN ref.o]
      [] ref.t = "str" -> [err |-> FALSE, val |-> IsSubstring(key, ref.s)]
      [] ref.t = "arr" ->
            [err |-> FALSE, val |-> \E i \in 1..Len(ref.a) : ref.a[i] = JStr(key)]
      [] OTHER -> [err |-> TRUE, val |-> FALSE]

\* ref[key], for a string key: a dict's value (KeyError if the key is absent);
\* a string or a list takes integer indices only, and nothing else is
\* subscriptable (TypeError)
getitem(ref, key) ==
    IF ref.t # "obj" THEN [exc |-> "TypeError", val |-> JNull]
    ELSE IF key \notin DOMAIN ref.o THEN [exc |-> "KeyError", val |-> JNull]
    ELSE [exc |-> "none", val |-> ref.o[key]]

\* d[key] = value on a dict
setitem(o, key, value) ==
    [c \in DOMAIN o \cup {key} |-> IF c = key THEN value ELSE o[c]]

\* Mutant of delitem: d.clear(), the dict loses every key
delitem_clear(o, key) == EmptyDict

\* del d[key] on a dict holding key
delitem(o, key) == [c \in DOMAIN o \ {key} |-> o[c]]

\* _resolve_config_path: the directory must exist
_resolve_config_path(f, wrapper_name) ==
    IF ~os_path_isdir(f, editor_CONFIG_DIR)
    THEN [res |-> Raise("FileNotFoundError", "Configuration directory not found"),
          path |-> <<>>]
    ELSE [res |-> Ok, path |-> path_join(editor_CONFIG_DIR, config_filename(wrapper_name))]

\* _load_config_data: the parsed document, whatever JSON value it is
_load_config_data(f, wrapper_name) ==
    LET p == _resolve_config_path(f, wrapper_name)
        r == open_r(f, p.path)
        j == json_load(r.text)
    IN  IF p.res # Ok THEN [res |-> p.res, val |-> JNull]
        ELSE IF ~os_path_exists(f, p.path) THEN [res |-> NotFound, val |-> JNull]
        ELSE IF r.err # "none"
             THEN [res |-> Raise("OSError", "Filesystem error while reading"), val |-> JNull]
        ELSE IF ~j.ok THEN [res |-> Raise("ValueError", "Invalid JSON format"), val |-> JNull]
        ELSE [res |-> Ok, val |-> j.val]

\* Mutant of _save_config_data: the document is never written back
_save_config_data_skipped(f, wrapper_name, config_data) == [res |-> Ok, fs |-> f]

\* _save_config_data: open(file_path, "w") truncates, json.dump writes; a value
\* json cannot serialise raises TypeError after the tokens before it
_save_config_data(f, wrapper_name, config_data) ==
    LET p == _resolve_config_path(f, wrapper_name)
        o == open_w(f, p.path)
        d == json_dump(config_data)
    IN  IF p.res # Ok THEN [res |-> p.res, fs |-> f]
        ELSE IF o.err # "none"
             THEN [res |-> Raise("OSError", "Filesystem error while writing"), fs |-> f]
        ELSE [res |-> IF d.ok THEN Ok
                      ELSE Raise("TypeError", "Object is not JSON serializable"),
              fs |-> write_text(o.fs, p.path, d.toks)]

KeyNotFound == Raise("KeyError", "Key not found")

NotSubscriptable == Raise("TypeError", "Value is not a dict")

\* f"Key '{field_path}' not found in '{wrapper_name}.json'."
key_message(field_path, wrapper_name) ==
    <<"K", "e", "y", " ", "'">> \o field_path
    \o <<"'", " ", "n", "o", "t", " ", "f", "o", "u", "n", "d", " ", "i", "n", " ", "'">>
    \o config_filename(wrapper_name) \o <<"'", ".">>

Walked(exc, val) == [exc |-> exc, val |-> val]

\* read_config_field's loop, from keys[i] on: "if key not in ref: raise
\* KeyError", then "ref = ref[key]"
RECURSIVE read_walk(_, _, _)
read_walk(ref, keys, i) ==
    IF i > Len(keys) THEN Walked("none", ref)
    ELSE LET c == contains(ref, keys[i])
             g == getitem(ref, keys[i])
         IN  IF c.err THEN Walked("TypeError", JNull)
             ELSE IF ~c.val THEN Walked("KeyError", JNull)
             ELSE IF g.exc # "none" THEN Walked(g.exc, JNull)
             ELSE read_walk(g.val, keys, i + 1)

\* read_config_field: on KeyError val is the message
read_config_field(f, wrapper_name, field_path) ==
    LET l == _load_config_data(f, wrapper_name)
        w == read_walk(l.val, split(field_path, "."), 1)
    IN  IF l.res # Ok THEN Out(l.res, f, JNull)
        ELSE IF w.exc = "KeyError"
             THEN Out(KeyNotFound, f, JStr(key_message(field_path, wrapper_name)))
        ELSE IF w.exc = "TypeError" THEN Out(NotSubscriptable, f, JNull)
        ELSE Out(Ok, f, w.val)

\* Mutant of update_walk: "ref[key] = {}" at every step, an object on the
\* way is replaced as well
RECURSIVE update_walk_fresh(_, _, _, _)
update_walk_fresh(ref, keys, i, value) ==
    IF ~IsDict(ref) THEN Walked("TypeError", JNull)
    ELSE IF i = Len(keys) THEN Walked("none", JObj(setitem(ref.o, keys[i], value)))
    ELSE LET r == update_walk_fresh(JObj(EmptyDict), keys, i + 1, value)
         IN  Walked("none", JObj(setitem(ref.o, keys[i], r.val)))

\* Mutant of update_walk: a key missing on the way is an error, as it is for
\* delete_config_field
RECURSIVE update_walk_strict(_, _, _, _)
update_walk_strict(ref, keys, i, value) ==
    IF ~IsDict(ref) THEN Walked("TypeError", JNull)
    ELSE IF i = Len(keys) THEN Walked("none", JObj(setitem(ref.o, keys[i], value)))
    ELSE IF keys[i] \notin DOMAIN ref.o THEN Walked("KeyError", JNull)
    ELSE LET r == update_walk_strict(ref.o[keys[i]], keys, i + 1, value)
         IN  IF r.exc # "none" THEN r
             ELSE Walked("none", JObj(setitem(ref.o, keys[i], r.val)))

\* update_config_field's loop over keys[:-1] and its final assignment, on the
\* value in place of the reference: the node ref after the update below it.
\* "key not in ref or not isinstance(ref[key], dict)" evaluates ref[key] when
\* the key is in ref; "ref[key] = {}" and "ref[keys[-1]] = value" need a dict.
RECURSIVE update_walk(_, _, _, _)
update_walk(ref, keys, i, value) ==
    IF i = Len(keys)
    THEN IF IsDict(ref) THEN Walked("none", JObj(setitem(ref.o, keys[i], value)))
         ELSE Walked("TypeError", JNull)
    ELSE LET c == contains(ref, keys[i])
             g == getitem(ref, keys[i])
         IN  IF c.err THEN Walked("TypeError", JNull)
             ELSE IF c.val /\ g.exc # "none" THEN Walked(g.exc, JNull)
             ELSE IF ~c.val /\ ~IsDict(ref) THEN Walked("TypeError", JNull)
             ELSE LET child == IF ~c.val \/ ~IsDict(g.val) THEN JObj(EmptyDict) ELSE g.val
                      r == update_walk(child, keys, i + 1, value)
                  IN  IF r.exc # "none" THEN r
                      ELSE Walked("none", JObj(setitem(ref.o, keys[i], r.val)))

update_config_field(f, wrapper_name, field_path, value) ==
    LET l == _load_config_data(f, wrapper_name)
        w == update_walk(l.val, split(field_path, "."), 1, value)
        s == _save_config_data(f, wrapper_name, w.val)
    IN  IF l.res # Ok THEN Out(l.res, f, JNull)
        ELSE IF w.exc # "none" THEN Out(NotSubscriptable, f, JNull)
        ELSE IF s.res # Ok THEN Out(s.res, s.fs, JNull)
        ELSE Out(Ok, s.fs, JBool(TRUE))

\* delete_config_field's loop over keys[:-1] and its "del ref[last_key]", on
\* the value in place of the reference
RECURSIVE delete_walk(_, _, _)
delete_walk(ref, keys, i) ==
    LET c == contains(ref, keys[i])
        g == getitem(ref, keys[i])
    IN  IF c.err THEN Walked("TypeError", JNull)
        ELSE IF ~c.val THEN Walked("KeyError", JNull)
        ELSE IF g.exc # "none" THEN Walked(g.exc, JNull)
        ELSE IF i = Len(keys) THEN Walked("none", JObj(delitem(ref.o, keys[i])))
        ELSE IF ~IsDict(g.val) THEN Walked("KeyError", JNull)
        ELSE LET r == delete_walk(g.val, keys, i + 1)
             IN  IF r.exc # "none" THEN r
                 ELSE Walked("none", JObj(setitem(ref.o, keys[i], r.val)))

\* Mutant of delete_config_field: ref.pop(last_key, None) under a blanket
\* "except KeyError: pass", a path that does not resolve is not an error
delete_config_field_lenient(f, wrapper_name, field_path) ==
    LET l == _load_config_data(f, wrapper_name)
        w == delete_walk(l.val, split(field_path, "."), 1)
        s == _save_config_data(f, wrapper_name, IF w.exc = "none" THEN w.val ELSE l.val)
    IN  IF l.res # Ok THEN Out(l.res, f, JNull)
        ELSE IF w.exc = "TypeError" THEN Out(NotSubscriptable, f, JNull)
        ELSE IF s.res # Ok THEN Out(s.res, s.fs, JNull)
        ELSE Out(Ok, s.fs, JBool(TRUE))

delete_config_field(f, wrapper_name, field_path) ==
    LET l == _load_config_data(f, wrapper_name)
        w == delete_walk(l.val, split(field_path, "."), 1)
        s == _save_config_data(f, wrapper_name, w.val)
    IN  IF l.res # Ok THEN Out(l.res, f, JNull)
        ELSE IF w.exc = "KeyError"
             THEN Out(KeyNotFound, f, JStr(key_message(field_path, wrapper_name)))
        ELSE IF w.exc = "TypeError" THEN Out(NotSubscriptable, f, JNull)
        ELSE IF s.res # Ok THEN Out(s.res, s.fs, JNull)
        ELSE Out(Ok, s.fs, JBool(TRUE))

(***************************************************************************)
(* Runs of the field editor: the directory holds at most the document "a", *)
(* first the empty object, an object of one key, an object nested in an   *)
(* object, or a text that is not JSON; "b" is never stored.                *)
(***************************************************************************)
EditorNames == {<<"a">>, <<"b">>}

\* Dotted paths callers pass: one, two and three segments
FieldPaths == { <<"f">>, <<"f", ".", "c">>, <<"f", ".", "c", ".", "x">> }

\* Values callers pass: one of every JSON kind (a string and a list that hold
\* the segment "c"), and a value json cannot serialise
FieldValues ==
    { JStr(<<"c">>), JStr(<<"v">>), JNum(1), JBool(TRUE), JNull,
      JArr(<<JStr(<<"c">>)>>), JObj(EmptyDict), PyObj }

\* The editor's directory holding the document "a" with the given text
EditorFs(text) ==
    LET dir == Split(editor_CONFIG_DIR)
    IN  (SubSeq(dir, 1, 1) :> Dir) @@ (dir :> Dir)
        @@ (Append(dir, config_filename(<<"a">>)) :> File(text))

\* A document with a key no path of FieldPaths reaches
OtherKeyDoc == JObj(<<"g">> :> JStr(<<"v">>))

\* A document whose object "f" holds a number under "c" beside another key
NestedDoc == JObj(<<"f">> :> JObj(<<"c">> :> JNum(1) @@ <<"g">> :> JStr(<<"v">>)))

InitialEditorFs ==
    { NoFs, EditorFs(json_dump(JObj(EmptyDict)).toks),
      EditorFs(json_dump(OtherKeyDoc).toks), EditorFs(json_dump(NestedDoc).toks),
      EditorFs(<<Punct("{")>>) }

InitEdit ==
    /\ fs \in InitialEditorFs
    /\ prev = fs
    /\ last = NoCall
    /\ procs = [p \in Procs |-> Idle]

CallField(op, name, path, data, out) ==
    [Call(op, name, <<>>, data, out) EXCEPT !.path = path]

\* Each action binds the call's outcome once, as out
ReadField ==
    \E name \in EditorNames, path \in FieldPaths :
        \E out \in {read_config_field(fs, name, path)} :
            /\ fs' = out.fs
            /\ prev' = fs
            /\ last' = CallField("read_config_field", name, path, JNull, out)
            /\ UNCHANGED procs

UpdateField ==
    \E name \in EditorNames, path \in FieldPaths, value \in FieldValues :
        \E out \in {update_config_field(fs, name, path, value)} :
            /\ fs' = out.fs
            /\ prev' = fs
            /\ last' = CallField("update_config_field", name, path, value, out)
            /\ UNCHANGED procs

DeleteField ==
    \E name \in EditorNames, path \in FieldPaths :
        \E out \in {delete_config_field(fs, name, path)} :
            /\ fs' = out.fs
            /\ prev' = fs
            /\ last' = CallField("delete_config_field", name, path, JNull, out)
            /\ UNCHANGED procs

NextEdit == ReadField \/ UpdateField \/ DeleteField

SpecEdit == InitEdit /\ [][NextEdit]_vars

(***************************************************************************)
(* Claims about the field editor, over SpecEdit.                           *)
(***************************************************************************)
\* What the editor's directory held under name when the call started
StoredBefore(name) == _load_config_data(prev, name)

\* name was a stored document whose top level is an object
ObjectDocBefore(name) == StoredBefore(name).res = Ok /\ IsDict(StoredBefore(name).val)

\* The node a sequence of segments addresses: each step needs an object that
\* has the segment as a key
RECURSIVE FieldAt(_, _, _)
FieldAt(node, segs, i) ==
    IF i > Len(segs) THEN [found |-> TRUE, val |-> node]
    ELSE IF node.t = "obj" /\ segs[i] \in DOMAIN node.o
         THEN FieldAt(node.o[segs[i]], segs, i + 1)
    ELSE [found |-> FALSE, val |-> JNull]

Segments(path) == split(path, ".")

\* C11: update_config_field(n, p, v) on a stored object document, for a
\* JSON value v, succeeds, and read_config_field(n, p) then returns v,
\* whatever the document held and however many segments p has.
C11_UpdateThenRead ==
    (Called("update_config_field") /\ ObjectDocBefore(last.name) /\ IsJson(last.data))
    => /\ last.res = Ok
       /\ read_config_field(fs, last.name, last.path).res = Ok
       /\ read_config_field(fs, last.name, last.path).val = last.data

\* A three-segment path set in the empty document, and read back
C11_Witness ==
    /\ Called("update_config_field")
    /\ StoredBefore(last.name).res = Ok
    /\ StoredBefore(last.name).val = JObj(EmptyDict)
    /\ Len(Segments(last.path)) = 3
    /\ last.data = JArr(<<JStr(<<"c">>)>>)
    /\ read_config_field(fs, last.name, last.path).val = last.data

\* C12: read_config_field(n, p) on a stored document fails with KeyNotFound,
\* its message naming p and n, whenever some step of p meets a node that is
\* not an object holding the next segment as a key, whatever the kind of that
\* node; otherwise it returns the addressed value unmodified.
C12_ReadField ==
    (Called("read_config_field") /\ StoredBefore(last.name).res = Ok)
    => LET at == FieldAt(StoredBefore(last.name).val, Segments(last.path), 1)
       IN  IF at.found THEN last.res = Ok /\ last.val = at.val
           ELSE /\ last.res = KeyNotFound
                /\ IsSubstring(last.path, last.val.s)
                /\ IsSubstring(last.name, last.val.s)

\* C13: delete_config_field(n, p) on a stored object document fails with
\* KeyNotFound when p does not address a field (a segment before the last is
\* missing or is not an object, or the last key is absent), and the file
\* system is then exactly as it was.
C13_DeleteMissing ==
    (/\ Called("delete_config_field")
     /\ ObjectDocBefore(last.name)
     /\ ~FieldAt(StoredBefore(last.name).val, Segments(last.path), 1).found)
    => last.res = KeyNotFound /\ fs = prev

\* A delete through a number where an object was needed
C13_Witness ==
    /\ Called("delete_config_field")
    /\ ObjectDocBefore(last.name)
    /\ FieldAt(StoredBefore(last.name).val, <<<<"f">>>>, 1).val = JNum(1)
    /\ Len(Segments(last.path)) = 3
    /\ last.res = KeyNotFound
    /\ fs = prev

FieldKeys == {<<"f">>, <<"c">>, <<"x">>, <<"g">>}

\* Every sequence of one to three keys
ProbePaths ==
    UNION {[1..n -> FieldKeys] : n \in 1..3}

\* C14: after a successful delete_config_field(n, p), read_config_field(n, p)
\* fails with KeyNotFound; the objects above the deleted key remain, the
\* parent with its other keys only; every field outside p is as it was.
C14_DeleteField ==
    (Called("delete_config_field") /\ last.res = Ok)
    => LET before == StoredBefore(last.name).val
           after == _load_config_data(fs, last.name)
           segs == Segments(last.path)
       IN  /\ read_config_field(fs, last.name, last.path).res = KeyNotFound
           /\ after.res = Ok
           /\ IsDict(after.val)
           /\ \A q \in ProbePaths :
                LET b == FieldAt(before, q, 1)
                    a == FieldAt(after.val, q, 1)
                IN  IF IsPrefix(segs, q) THEN ~a.found
                    ELSE IF IsPrefix(q, segs)
                         THEN /\ a.found /\ b.found /\ IsDict(a.val)
                              /\ DOMAIN a.val.o =
                                   DOMAIN b.val.o \ (IF Len(q) + 1 = Len(segs)
                                                     THEN {segs[Len(segs)]} ELSE {})
                    ELSE a = b

\* The only key of f.c deleted: f.c stays, empty, and g keeps its value
C14_Witness ==
    /\ Called("delete_config_field")
    /\ last.res = Ok
    /\ Len(Segments(last.path)) = 3
    /\ FieldAt(_load_config_data(fs, last.name).val, <<<<"f">>, <<"c">>>>, 1)
         = [found |-> TRUE, val |-> JObj(EmptyDict)]
    /\ FieldAt(_load_config_data(fs, last.name).val, <<<<"g">>>>, 1)
         = [found |-> TRUE, val |-> JStr(<<"v">>)]

(***************************************************************************)
(* Command lookup (src/src/common/base.py).  The shell is the environment: *)
(* the k-th command a call runs ends as sh[k] says, with some output or    *)
(* with a non-zero exit status.                                            *)
(***************************************************************************)
\* Most $(...) occurrences in a command string of the modelled runs
MaxSubst == 2

Whitespace == {" ", "\n", "\t"}

\* str.strip()
RECURSIVE lstrip(_), rstrip(_)
lstrip(s) == IF Len(s) > 0 /\ s[1] \in Whitespace THEN lstrip(Tail(s)) ELSE s

rstrip(s) ==
    IF Len(s) > 0 /\ s[Len(s)] \in Whitespace THEN rstrip(SubSeq(s, 1, Len(s) - 1)) ELSE s

strip(s) == rstrip(lstrip(s))

\* One run of subprocess.check_output: the output, or CalledProcessError
ShellOutcomes ==
    { [ok |-> TRUE, out |-> <<"o">>],
      [ok |-> TRUE, out |-> <<" ", "o", " ", "p", "\n">>],
      [ok |-> FALSE, out |-> <<>>] }

ShellRuns == [1..MaxSubst -> ShellOutcomes]

\* A match of r'\$\(([^)]+)\)' starting at cmd[i]: the index of its closing
\* parenthesis, the first ")" after "$(", with at least one character
\* between; 0 when there is no match at i
match_end(cmd, i) ==
    IF ~(i + 1 <= Len(cmd) /\ cmd[i] = "$" /\ cmd[i + 1] = "(") THEN 0
    ELSE LET closing == {j \in (i + 2)..Len(cmd) : cmd[j] = ")"}
             first == CHOOSE j \in closing : \A k \in closing : j <= k
         IN  IF closing = {} THEN 0
             ELSE IF first = i + 2 THEN 0
             ELSE first

\* One print call: the format of the line, and what is put into it (e an
\* exception's message, arg a string, toks JSON text)
Printed(fmt, e, arg, toks) == [fmt |-> fmt, e |-> e, arg |-> arg, toks |-> toks]

substitution_failed(command_inside) ==
    Printed("[ERROR] Shell substitution failed for '{command_inside}': {e}",
            "CalledProcessError", command_inside, <<>>)

\* Mutant of _replace: "return output", the output is not stripped
_replace_unstripped(group, run) ==
    [text |-> IF run.ok THEN run.out ELSE <<>>,
     stderr |-> IF run.ok THEN <<>> ELSE <<substitution_failed(strip(group))>>,
     shell |-> <<[cmd |-> strip(group), ok |-> run.ok, out |-> run.out]>>]

\* _replace(match): the replacement text, what is printed to stderr, and the
\* command run with its result
_replace(group, run) ==
    [text |-> IF run.ok THEN strip(run.out) ELSE <<>>,
     stderr |-> IF run.ok THEN <<>> ELSE <<substitution_failed(strip(group))>>,
     shell |-> <<[cmd |-> strip(group), ok |-> run.ok, out |-> run.out]>>]

\* re.sub(pattern, _replace, cmd) from cmd[i] on, the k-th shell run next:
\* the leftmost match is replaced and the scan resumes after it
RECURSIVE re_sub(_, _, _, _)
re_sub(cmd, i, sh, k) ==
    IF i > Len(cmd) THEN [text |-> <<>>, stderr |-> <<>>, shell |-> <<>>]
    ELSE IF match_end(cmd, i) = 0
         THEN LET r == re_sub(cmd, i + 1, sh, k)
              IN  [r EXCEPT !.text = <<cmd[i]>> \o @]
    ELSE LET j == match_end(cmd, i)
             m == _replace(SubSeq(cmd, i + 2, j - 1), sh[k])
             r == re_sub(cmd, j + 1, sh, k + 1)
         IN  [text |-> m.text \o r.text,
              stderr |-> m.stderr \o r.stderr,
              shell |-> m.shell \o r.shell]

_expand_shell_substitutions(cmd, sh) == re_sub(cmd, 1, sh, 1)

\* The result of a lookup: the outcome, what was printed to stderr on the
\* way, and the shell commands run
Got(res, val, stderr, shell) ==
    [res |-> res, val |-> val, names |-> <<>>, stderr |-> stderr, shell |-> shell]

\* bool(x): "", 0, False, None, [] and {} are false
truthy(x) ==
    CASE x.t = "str" -> Len(x.s) > 0
      [] x.t = "num" -> x.n # 0
      [] x.t = "bool" -> x.n = 1
      [] x.t = "null" -> FALSE
      [] x.t = "arr" -> Len(x.a) > 0
      [] x.t = "obj" -> DOMAIN x.o # {}
      [] OTHER -> TRUE

FUZZ_CMD ==
    <<"f", "u", "z", "z", ".", "f", "u", "z", "z", "_", "c", "m", "d">>

BUILD_CMD ==
    <<"b", "u", "i", "l", "d", ".", "b", "u", "i", "l", "d", "_", "c", "m", "d">>

COVERAGE_CMD ==
    <<"c", "o", "v", "e", "r", "a", "g", "e", ".",
      "c", "o", "v", "e", "r", "a", "g", "e", "_", "c", "m", "d">>

\* The body the three lookups share, after the field is read as raw_cmd (or
\* the read raised): a false value gives ""; re.sub on a value that is not a
\* string raises TypeError
expand_raw(raw_cmd, sh) ==
    IF raw_cmd.res # Ok THEN Got(raw_cmd.res, raw_cmd.val, <<>>, <<>>)
    ELSE IF ~truthy(raw_cmd.val) THEN Got(Ok, JStr(<<>>), <<>>, <<>>)
    ELSE IF raw_cmd.val.t # "str"
         THEN Got(Raise("TypeError", "expected string or bytes-like object"),
                  JNull, <<>>, <<>>)
    ELSE LET e == _expand_shell_substitutions(raw_cmd.val.s, sh)
         IN  Got(Ok, JStr(e.text), e.stderr, e.shell)

get_cmd(f, wrap_name, field_path, sh) ==
    expand_raw(read_config_field(f, wrap_name, field_path), sh)

get_fuzz_cmd(f, wrap_name, sh) == get_cmd(f, wrap_name, FUZZ_CMD, sh)

get_cov_cmd(f, wrap_name, sh) == get_cmd(f, wrap_name, COVERAGE_CMD, sh)

\* Mutant of get_build_cmd: the body copied from get_fuzz_cmd with its path
get_build_cmd_fuzz_path(f, wrap_name, sh) == get_cmd(f, wrap_name, FUZZ_CMD, sh)

get_build_cmd(f, wrap_name, sh) == get_cmd(f, wrap_name, BUILD_CMD, sh)

\* get_wrap_names: list_config's result or exception, as it is
get_wrap_names(f, listing) ==
    LET r == list_config(f, listing)
    IN  [Got(r.res, JNull, <<>>, <<>>) EXCEPT !.names = r.names]

\* get_harn_names: list_config's result, a missing directory (FileNotFoundError)
\* turned into the empty list
get_harn_names(f, listing) ==
    LET r == get_wrap_names(f, listing)
    IN  IF r.res.exc = "FileNotFoundError" THEN Got(Ok, JNull, <<>>, <<>>) ELSE r

(***************************************************************************)
(* The command line (src/src/harnman.py): what one run prints to stdout    *)
(* and stderr, and its exit status.                                        *)
(***************************************************************************)
Ran(stdout, stderr, code, shell) ==
    [stdout |-> stdout, stderr |-> stderr, code |-> code, shell |-> shell]

\* sep.join(names)
RECURSIVE join(_, _)
join(names, sep) ==
    IF names = <<>> THEN <<>>
    ELSE IF Len(names) = 1 THEN names[1]
    ELSE names[1] \o <<sep>> \o join(Tail(names), sep)

ErrorLine(res) == Printed("Error: {e}", res.msg, <<>>, <<>>)

list_harnesses(f, listing) ==
    LET h == get_harn_names(f, listing)
    IN  IF h.res # Ok THEN Ran(<<>>, <<ErrorLine(h.res)>>, 1, <<>>)
        ELSE IF h.names # <<>>
             THEN Ran(<<Printed("{harnesses}", "", join(h.names, "\n"), <<>>)>>, <<>>, 0, <<>>)
        ELSE Ran(<<Printed("No harnesses found.", "", <<>>, <<>>)>>, <<>>, 0, <<>>)

\* json.dumps(harnesses): the names as a JSON list of strings
list_harnesses_json(f, listing) ==
    LET h == get_harn_names(f, listing)
        text == json_dump(JArr([i \in 1..Len(h.names) |-> JStr(h.names[i])])).toks
    IN  IF h.res # Ok THEN Ran(<<>>, <<ErrorLine(h.res)>>, 1, <<>>)
        ELSE Ran(<<Printed("{json}", "", <<>>, text)>>, <<>>, 0, <<>>)

\* Mutant of print_cmd: the handlers print the error and return, sys.exit(1)
\* is missing
print_cmd_no_exit(g, not_found, harness_name) ==
    IF g.res = Ok THEN Ran(<<Printed("{cmd}", "", g.val.s, <<>>)>>, g.stderr, 0, g.shell)
    ELSE IF g.res.exc = "KeyError"
         THEN Ran(<<>>, g.stderr \o <<Printed(not_found, "", harness_name, <<>>)>>, 0, g.shell)
    ELSE Ran(<<>>, g.stderr \o <<ErrorLine(g.res)>>, 0, g.shell)

\* The body print_fuzz_cmd, print_build_cmd and print_coverage_cmd share, on
\* the lookup's result g: print(cmd); except KeyError: the not-found line and
\* sys.exit(1); except Exception: "Error: {e}" and sys.exit(1)
print_cmd(g, not_found, harness_name) ==
    IF g.res = Ok THEN Ran(<<Printed("{cmd}", "", g.val.s, <<>>)>>, g.stderr, 0, g.shell)
    ELSE IF g.res.exc = "KeyError"
         THEN Ran(<<>>, g.stderr \o <<Printed(not_found, "", harness_name, <<>>)>>, 1, g.shell)
    ELSE Ran(<<>>, g.stderr \o <<ErrorLine(g.res)>>, 1, g.shell)

print_fuzz_cmd(f, harness_name, sh) ==
    print_cmd(get_fuzz_cmd(f, harness_name, sh),
              "Error: Harness '{harness_name}' not found or no fuzz command specified.",
              harness_name)

print_build_cmd(f, harness_name, sh) ==
    print_cmd(get_build_cmd(f, harness_name, sh),
              "Error: Harness '{harness_name}' not found or no build command specified.",
              harness_name)

print_coverage_cmd(f, harness_name, sh) ==
    print_cmd(get_cov_cmd(f, harness_name, sh),
              "Error: Harness '{harness_name}' not found or no coverage command specified.",
              harness_name)

\* The parsed arguments: the flags, and each option's NAME (<<>>: not given)
Args(list, json, fcmd, bcmd, ccmd) ==
    [list |-> list, json |-> json, fcmd |-> fcmd, bcmd |-> bcmd, ccmd |-> ccmd]

\* main after parse_args
main(f, args, sh, listing) ==
    IF args.list
    THEN IF args.json THEN list_harnesses_json(f, listing) ELSE list_harnesses(f, listing)
    ELSE IF args.fcmd # <<>> THEN print_fuzz_cmd(f, args.fcmd, sh)
    ELSE IF args.bcmd # <<>> THEN print_build_cmd(f, args.bcmd, sh)
    ELSE IF args.ccmd # <<>> THEN print_coverage_cmd(f, args.ccmd, sh)
    ELSE Ran(<<Printed("{help}", "", <<>>, <<>>)>>, <<>>, 0, <<>>)

(***************************************************************************)
(* Runs of the lookups and of the command line.  The editor's directory    *)
(* holds the document "a" with its three commands in different shapes; the *)
(* store's directory is missing, empty, or holds "a" and "b".              *)
(***************************************************************************)
KFuzz == <<"f", "u", "z", "z">>

KFuzzCmd == <<"f", "u", "z", "z", "_", "c", "m", "d">>

KBuild == <<"b", "u", "i", "l", "d">>

KBuildCmd == <<"b", "u", "i", "l", "d", "_", "c", "m", "d">>

KCoverage == <<"c", "o", "v", "e", "r", "a", "g", "e">>

KCoverageCmd == <<"c", "o", "v", "e", "r", "a", "g", "e", "_", "c", "m", "d">>

CmdDoc(fuzz, build, coverage) ==
    JObj(KFuzz :> fuzz @@ KBuild :> build @@ KCoverage :> coverage)

\* Three plain commands, all different
PlainDoc ==
    CmdDoc(JObj(KFuzzCmd :> JStr(<<"f", " ", "$", "1">>)),
           JObj(KBuildCmd :> JStr(<<"b">>)),
           JObj(KCoverageCmd :> JStr(<<"c", "(", ")">>)))

\* A command with two substitutions, a number where the build object should
\* be, an empty coverage command
SubstDoc ==
    CmdDoc(JObj(KFuzzCmd :> JStr(<<"a", " ", "$", "(", "x", ")", " ",
                                   "$", "(", " ", "y", " ", ")">>)),
           JNum(1),
           JObj(KCoverageCmd :> JStr(<<>>)))

\* Commands that are not strings, and an object without its command
OddDoc ==
    CmdDoc(JObj(KFuzzCmd :> JNum(0)),
           JObj(KBuildCmd :> JArr(<<JStr(<<"x">>)>>)),
           JObj(EmptyDict))

CmdDocs == {PlainDoc, SubstDoc, OddDoc, JObj(EmptyDict)}

StoredConfigDir ==
    EmptyConfigDir
    @@ (<<CONFIG_DIR, config_filename(<<"a">>)>> :> File(json_dump(D1).toks))
    @@ (<<CONFIG_DIR, config_filename(<<"b">>)>> :> File(json_dump(D1).toks))

InitialCliFs ==
    {EditorFs(json_dump(d).toks) : d \in CmdDocs}
    \cup {NoFs, EditorFs(json_dump(PlainDoc).toks) @@ EmptyConfigDir,
          EditorFs(json_dump(SubstDoc).toks) @@ StoredConfigDir}

InitCli ==
    /\ fs \in InitialCliFs
    /\ prev = fs
    /\ last = NoCall
    /\ procs = [p \in Procs |-> Idle]

\* Command lines: each option alone, --json without --list, two options at
\* once, and no argument
CliArgs ==
    { Args(TRUE, FALSE, <<>>, <<>>, <<>>), Args(TRUE, TRUE, <<>>, <<>>, <<>>),
      Args(FALSE, TRUE, <<>>, <<>>, <<>>), Args(FALSE, FALSE, <<>>, <<>>, <<>>),
      Args(FALSE, FALSE, <<"a">>, <<>>, <<>>), Args(FALSE, FALSE, <<"b">>, <<>>, <<>>),
      Args(FALSE, FALSE, <<>>, <<"a">>, <<>>), Args(FALSE, FALSE, <<>>, <<>>, <<"a">>),
      Args(FALSE, FALSE, <<>>, <<"a">>, <<"b">>) }

CallGot(op, name, g) ==
    [NoCall EXCEPT !.op = op, !.name = name, !.res = g.res, !.val = g.val,
                   !.names = g.names, !.stderr = g.stderr, !.shell = g.shell]

GetFuzzCmd ==
    \E name \in EditorNames, sh \in ShellRuns :
        \E g \in {get_fuzz_cmd(fs, name, sh)} :
            /\ fs' = fs
            /\ prev' = fs
            /\ last' = CallGot("get_fuzz_cmd", name, g)
            /\ UNCHANGED procs

GetBuildCmd ==
    \E name \in EditorNames, sh \in ShellRuns :
        \E g \in {get_build_cmd(fs, name, sh)} :
            /\ fs' = fs
            /\ prev' = fs
            /\ last' = CallGot("get_build_cmd", name, g)
            /\ UNCHANGED procs

GetCovCmd ==
    \E name \in EditorNames, sh \in ShellRuns :
        \E g \in {get_cov_cmd(fs, name, sh)} :
            /\ fs' = fs
            /\ prev' = fs
            /\ last' = CallGot("get_cov_cmd", name, g)
            /\ UNCHANGED procs

GetWrapNames ==
    \E listing \in Orderings(os_listdir(fs, CONFIG_DIR)) :
        \E g \in {get_wrap_names(fs, listing)} :
            /\ fs' = fs
            /\ prev' = fs
            /\ last' = CallGot("get_wrap_names", <<>>, g)
            /\ UNCHANGED procs

GetHarnNames ==
    \E listing \in Orderings(os_listdir(fs, CONFIG_DIR)) :
        \E g \in {get_harn_names(fs, listing)} :
            /\ fs' = fs
            /\ prev' = fs
            /\ last' = CallGot("get_harn_names", <<>>, g)
            /\ UNCHANGED procs

Main ==
    \E args \in CliArgs, sh \in ShellRuns, listing \in Orderings(os_listdir(fs, CONFIG_DIR)) :
        \E r \in {main(fs, args, sh, listing)} :
            /\ fs' = fs
            /\ prev' = fs
            /\ last' = [NoCall EXCEPT !.op = "main", !.args = args,
                                      !.stdout = r.stdout, !.stderr = r.stderr,
                                      !.code = r.code, !.shell = r.shell]
            /\ UNCHANGED procs

NextCli == GetFuzzCmd \/ GetBuildCmd \/ GetCovCmd \/ GetWrapNames \/ GetHarnNames \/ Main

SpecCli == InitCli /\ [][NextCli]_vars

(***************************************************************************)
(* Claims about the lookups and the command line, over SpecCli.            *)
(***************************************************************************)
CmdLookups == {"get_fuzz_cmd", "get_build_cmd", "get_cov_cmd"}

\* The field each kind of command is kept in
CmdSegments(op) ==
    CASE op = "get_fuzz_cmd" -> <<KFuzz, KFuzzCmd>>
      [] op = "get_build_cmd" -> <<KBuild, KBuildCmd>>
      [] op = "get_cov_cmd" -> <<KCoverage, KCoverageCmd>>

\* The field of the last lookup, in the document as it was stored
CmdFieldBefore == FieldAt(StoredBefore(last.name).val, CmdSegments(last.op), 1)

NoSubstitution(s) == \A i \in 1..(Len(s) - 1) : ~(s[i] = "$" /\ s[i + 1] = "(")

\* C15: get_fuzz_cmd, get_build_cmd and get_cov_cmd return the string stored
\* at fuzz.fuzz_cmd, build.build_cmd and coverage.coverage_cmd, each its own,
\* unchanged and without running a shell command when it holds no "$(".
C15_PlainCommand ==
    (/\ last.op \in CmdLookups
     /\ StoredBefore(last.name).res = Ok
     /\ CmdFieldBefore.found
     /\ CmdFieldBefore.val.t = "str"
     /\ NoSubstitution(CmdFieldBefore.val.s))
    => /\ last.res = Ok
       /\ last.val = CmdFieldBefore.val
       /\ last.shell = <<>>
       /\ last.stderr = <<>>

\* The build command of a document whose three commands differ
C15_Witness ==
    /\ Called("get_build_cmd")
    /\ StoredBefore(last.name).res = Ok
    /\ StoredBefore(last.name).val = PlainDoc
    /\ last.val = JStr(<<"b">>)

\* C16: a lookup whose field path does not resolve in the stored document
\* ends with KeyNotFound, never with a value.
C16_MissingCommand ==
    (/\ last.op \in CmdLookups
     /\ StoredBefore(last.name).res = Ok
     /\ ~CmdFieldBefore.found)
    => last.res = KeyNotFound

IsDiagnostic(line) == line.e = "CalledProcessError"

FailedRuns == {k \in DOMAIN last.shell : ~last.shell[k].ok}

PlainPieces == {<<>>, <<"a", " ">>, <<")", "$">>}

\* What stands between "$(" and ")"
InsideCmds == {<<"x">>, <<" ", "y", " ">>}

ExpandCases ==
    UNION { {[plain |-> p, cmds |-> c] : p \in [1..(n + 1) -> PlainPieces],
                                          c \in [1..n -> InsideCmds]}
            : n \in 0..MaxSubst }

\* The command string of a case, from its i-th plain piece on
RECURSIVE CaseText(_, _)
CaseText(case, i) ==
    case.plain[i] \o
    (IF i > Len(case.cmds) THEN <<>>
     ELSE <<"$", "(">> \o case.cmds[i] \o <<")">> \o CaseText(case, i + 1))

\* A command string to expand, kept with the pieces it was put together from
InitExpand ==
    /\ fs = NoFs
    /\ prev = fs
    /\ \E case \in ExpandCases :
          last = [NoCall EXCEPT !.data = JStr(CaseText(case, 1)), !.parts = case]
    /\ procs = [p \in Procs |-> Idle]

ExpandShell ==
    \E sh \in ShellRuns :
        \E e \in {_expand_shell_substitutions(last.data.s, sh)} :
            /\ fs' = fs
            /\ prev' = fs
            /\ last' = [last EXCEPT !.op = "_expand_shell_substitutions",
                                    !.val = JStr(e.text),
                                    !.stderr = e.stderr,
                                    !.shell = e.shell]
            /\ UNCHANGED procs

NextExpand == ExpandShell

SpecExpand == InitExpand /\ [][NextExpand]_vars

\* t is s without the white space at its two ends
IsTrimOf(t, s) ==
    /\ t = <<>> \/ (t[1] \notin Whitespace /\ t[Len(t)] \notin Whitespace)
    /\ \E i \in 0..Len(s) :
          /\ i + Len(t) <= Len(s)
          /\ SubSeq(s, i + 1, i + Len(t)) = t
          /\ \A k \in (1..i) \cup ((i + Len(t) + 1)..Len(s)) : s[k] \in Whitespace

Trim(s) ==
    CHOOSE t \in {SubSeq(s, i, j) : i \in 1..(Len(s) + 1), j \in 0..Len(s)} : IsTrimOf(t, s)

\* The plain pieces as they were, each "$(...)" replaced by the trimmed output
\* of its run, or by nothing when the run failed
RECURSIVE ExpectedText(_, _, _)
ExpectedText(case, runs, i) ==
    case.plain[i] \o
    (IF i > Len(case.cmds) THEN <<>>
     ELSE (IF runs[i].ok THEN Trim(runs[i].out) ELSE <<>>) \o ExpectedText(case, runs, i + 1))

\* C18: _expand_shell_substitutions runs the content of every "$(...)", left
\* to right, and puts the trimmed output in its place, or the empty string
\* (with a diagnostic) when the command fails, going on with the occurrences
\* after it; the text outside the occurrences is unchanged.
C18_Expand ==
    Called("_expand_shell_substitutions")
    => /\ Len(last.shell) = Len(last.parts.cmds)
       /\ \A i \in DOMAIN last.shell : last.shell[i].cmd = Trim(last.parts.cmds[i])
       /\ last.val = JStr(ExpectedText(last.parts, last.shell, 1))
       /\ Len(last.stderr) = Cardinality({i \in DOMAIN last.shell : ~last.shell[i].ok})

\* The first of two substitutions fails, the second prints white space
\* around its output
C18_Witness ==
    /\ Called("_expand_shell_substitutions")
    /\ Len(last.shell) = 2
    /\ ~last.shell[1].ok
    /\ last.shell[2].ok
    /\ last.shell[2].out # Trim(last.shell[2].out)
    /\ last.parts.plain[3] # <<>>
    /\ last.val = JStr(ExpectedText(last.parts, last.shell, 1))

(***************************************************************************)
(* config_manager.py: validation of a stored document against a schema.    *)
(* jsonschema.validate is modelled for the keywords "type" and "required"; *)
(* the schemas of the runs hold no other keyword.                          *)
(***************************************************************************)
FileNotFound == Raise("FileNotFoundError", "File not found")

InvalidSchema == Raise("ValueError", "Schema is invalid")

ValidationFailed == Raise("ValueError", "Validation failed")

\* The outcome of a load or a validation, and the paths passed to open
Loaded(res, val, opened) == [res |-> res, val |-> val, opened |-> opened]

load_json_file(f, path) ==
    IF ~os_path_exists(f, path) THEN Loaded(FileNotFound, JNull, <<>>)
    ELSE LET r == open_r(f, path)
             j == json_load(r.text)
         IN  IF r.err # "none"
             THEN Loaded(Raise("OSError", "Filesystem error while reading"), JNull, <<path>>)
             ELSE IF ~j.ok THEN Loaded(Raise("ValueError", "Invalid JSON format"), JNull, <<path>>)
             ELSE Loaded(Ok, j.val, <<path>>)

KType == <<"t", "y", "p", "e">>

KRequired == <<"r", "e", "q", "u", "i", "r", "e", "d">>

TObject == <<"o", "b", "j", "e", "c", "t">>

TArray == <<"a", "r", "r", "a", "y">>

TString == <<"s", "t", "r", "i", "n", "g">>

TInteger == <<"i", "n", "t", "e", "g", "e", "r">>

TNumber == <<"n", "u", "m", "b", "e", "r">>

TBoolean == <<"b", "o", "o", "l", "e", "a", "n">>

TNull == <<"n", "u", "l", "l">>

\* The metaschema's simpleTypes
SimpleTypes == {TObject, TArray, TString, TInteger, TNumber, TBoolean, TNull}

IsSimpleType(x) == x.t = "str" /\ x.s \in SimpleTypes

\* The instance is of the named type
is_type(instance, type) ==
    CASE type = TObject -> instance.t = "obj"
      [] type = TArray -> instance.t = "arr"
      [] type = TString -> instance.t = "str"
      [] type = TInteger -> instance.t = "num"
      [] type = TNumber -> instance.t = "num"
      [] type = TBoolean -> instance.t = "bool"
      [] type = TNull -> instance.t = "null"
      [] OTHER -> FALSE

\* check_schema: the schema is an object or a boolean; "type" is a simple
\* type or a non-empty list of distinct simple types; "required" is a list
\* of distinct strings
check_schema(schema) ==
    \/ schema.t = "bool"
    \/ /\ schema.t = "obj"
       /\ KType \in DOMAIN schema.o
          => LET type == schema.o[KType]
             IN  \/ IsSimpleType(type)
                 \/ /\ type.t = "arr"
                    /\ Len(type.a) > 0
                    /\ \A i \in 1..Len(type.a) : IsSimpleType(type.a[i])
                    /\ \A i, j \in 1..Len(type.a) : type.a[i] = type.a[j] => i = j
       /\ KRequired \in DOMAIN schema.o
          => LET required == schema.o[KRequired]
             IN  /\ required.t = "arr"
                 /\ \A i \in 1..Len(required.a) : required.a[i].t = "str"
                 /\ \A i, j \in 1..Len(required.a) : required.a[i] = required.a[j] => i = j

\* The instance has no error under a checked schema
is_valid(instance, schema) ==
    IF schema.t = "bool" THEN schema.n = 1
    ELSE /\ KType \in DOMAIN schema.o
            => LET type == schema.o[KType]
               IN  IF type.t = "str" THEN is_type(instance, type.s)
                   ELSE \E i \in 1..Len(type.a) : is_type(instance, type.a[i].s)
         /\ (KRequired \in DOMAIN schema.o /\ instance.t = "obj")
            => \A i \in 1..Len(schema.o[KRequired].a) :
                  schema.o[KRequired].a[i].s \in DOMAIN instance.o

validate_json(data, schema) ==
    IF ~check_schema(schema) THEN InvalidSchema
    ELSE IF ~is_valid(data, schema) THEN ValidationFailed
    ELSE Ok

validate_config(f, wrapper_name, schema_path) ==
    LET config_path == file_path(wrapper_name)
        schema_data == load_json_file(f, schema_path)
        config_data == load_json_file(f, config_path)
    IN  IF schema_data.res # Ok THEN Loaded(schema_data.res, JNull, schema_data.opened)
        ELSE IF config_data.res # Ok
             THEN Loaded(config_data.res, JNull, schema_data.opened \o config_data.opened)
        ELSE IF validate_json(config_data.val, schema_data.val) # Ok
             THEN Loaded(validate_json(config_data.val, schema_data.val), JNull,
                         schema_data.opened \o config_data.opened)
        ELSE Loaded(Ok, JBool(TRUE), schema_data.opened \o config_data.opened)

(***************************************************************************)
(* Runs of validate_config: a schema file "s" in the working directory,    *)
(* or none, and a configuration directory that may hold documents under    *)
(* names inside and outside the pattern.                                   *)
(***************************************************************************)
SchemaPaths == {<<"s">>, <<"t">>}

\* Schemas: any object; an unknown type; an object with the key "k"; a list
SchemaDocs ==
    { JObj(KType :> JStr(TObject)),
      JObj(KType :> JStr(<<"x">>)),
      JObj(KType :> JStr(TObject) @@ KRequired :> JArr(<<JStr(<<"k">>)>>)),
      JObj(KType :> JStr(TArray)) }

SchemaFiles ==
    {NoFs}
    \cup {(<< <<"s">> >> :> File(json_dump(d).toks)) : d \in SchemaDocs}
    \cup {(<< <<"s">> >> :> File(<<Punct("{")>>))}

\* Documents "a" and " ", text that is not JSON under "b", and a document
\* beside the configuration directory, where "../a" leads
ValidateConfigDir(doc) ==
    ForeignConfigDir
    @@ (<<CONFIG_DIR, config_filename(<<"a">>)>> :> File(json_dump(D1).toks))
    @@ (<<CONFIG_DIR, config_filename(<<" ">>)>> :> File(json_dump(doc).toks))
    @@ (<<CONFIG_DIR, config_filename(<<"b">>)>> :> File(<<Punct("{")>>))
    @@ (<<config_filename(<<"a">>)>> :> File(json_dump(OtherKeyDoc).toks))

InitialValidateFs ==
    {c @@ s : c \in {NoFs, EmptyConfigDir, ValidateConfigDir(D1),
                     ValidateConfigDir(OtherKeyDoc)},
              s \in SchemaFiles}

InitValidate ==
    /\ fs \in InitialValidateFs
    /\ prev = fs
    /\ last = NoCall
    /\ procs = [p \in Procs |-> Idle]

ValidateConfig ==
    \E name \in Names, schema_path \in SchemaPaths :
        \E out \in {validate_config(fs, name, schema_path)} :
            /\ fs' = fs
            /\ prev' = fs
            /\ last' = [NoCall EXCEPT !.op = "validate_config", !.name = name,
                                      !.path = schema_path, !.res = out.res,
                                      !.val = out.val, !.opened = out.opened]
            /\ UNCHANGED procs

NextValidate == ValidateConfig

SpecValidate == InitValidate /\ [][NextValidate]_vars

\* C20: validate_config with a name outside the pattern fails with
\* InvalidName before any file is read: whatever the schema file and the
\* document are, the outcome is InvalidName, nothing is opened, and in
\* particular not the path built from the name.
C20_InvalidNameBeforeIO ==
    (Called("validate_config") /\ ~IsValidName(last.name))
    => /\ last.res = InvalidName
       /\ last.opened = <<>>
       /\ file_path(last.name) \notin Range(last.opened)


(***************************************************************************)
(* Claims about what update_config_field leaves of the document.           *)
(***************************************************************************)
\* C21: update_config_field(n, p, v) on a stored object document, v a JSON
\* value: every segment of p before the last ends as an object; one that was
\* missing or held a non-object is a fresh object holding the next segment
\* only, one that held an object keeps its keys and gains at most the next
\* segment; p holds v; every field not on p is as it was.
C21_UpdateStructure ==
    (Called("update_config_field") /\ ObjectDocBefore(last.name) /\ IsJson(last.data))
    => LET before == StoredBefore(last.name).val
           after == _load_config_data(fs, last.name)
           segs == Segments(last.path)
       IN  /\ last.res = Ok
           /\ after.res = Ok
           /\ \A q \in ProbePaths :
                LET b == FieldAt(before, q, 1)
                    a == FieldAt(after.val, q, 1)
                IN  IF q = segs THEN a = [found |-> TRUE, val |-> last.data]
                    ELSE IF IsPrefix(segs, q) THEN TRUE
                    ELSE IF IsPrefix(q, segs)
                         THEN /\ a.found
                              /\ IsDict(a.val)
                              /\ DOMAIN a.val.o =
                                   (IF b.found /\ IsDict(b.val) THEN DOMAIN b.val.o ELSE {})
                                   \cup {segs[Len(q) + 1]}
                    ELSE a = b

\* "f.c.x" set where f held an object with the keys c and g and f.c held a
\* number: f keeps g, f.c is an object holding x only
C21_Witness ==
    /\ Called("update_config_field")
    /\ last.res = Ok
    /\ StoredBefore(last.name).val = NestedDoc
    /\ Len(Segments(last.path)) = 3
    /\ last.data = JStr(<<"v">>)
    /\ FieldAt(_load_config_data(fs, last.name).val, <<<<"f">>>>, 1).val
         = JObj(<<"c">> :> JObj(<<"x">> :> JStr(<<"v">>)) @@ <<"g">> :> JStr(<<"v">>))


(***************************************************************************)
(* Concurrent runs with rename_config: two callers, each one call of       *)
(* add_config or rename_config, interleaved at the system calls.  A        *)
(* renaming caller's steps are the test of the directory, the test of the  *)
(* old path, the test of the new path and os.rename.  When a rename ends   *)
(* at one of the last two, last is that call and prev the file system the  *)
(* step met.  A caller that holds a file open keeps writing to that file   *)
(* when a rename moves it or replaces it.                                  *)
(***************************************************************************)
RaceNames == {<<"a">>, <<"b">>, <<"c">>}

\* The documents "a", or "a" and "c", stored with different contents
InitialRaceFs ==
    { EmptyConfigDir,
      EmptyConfigDir @@ (<<CONFIG_DIR, config_filename(<<"a">>)>> :> File(json_dump(D1).toks)),
      EmptyConfigDir @@ (<<CONFIG_DIR, config_filename(<<"a">>)>> :> File(json_dump(D1).toks))
                     @@ (<<CONFIG_DIR, config_filename(<<"c">>)>> :> File(json_dump(D2).toks)) }

InitRace ==
    /\ fs \in InitialRaceFs
    /\ prev = fs
    /\ last = NoCall
    /\ procs = [p \in Procs |-> Idle]

\* rename_config is called
RenameEnter(p) ==
    /\ procs[p].pc = "start"
    /\ \E old \in RaceNames, new \in RaceNames :
          procs' = [procs EXCEPT ![p] =
                      [pc |-> "rename_isdir", op |-> "rename_config", name |-> old,
                       new |-> new, path |-> <<>>, data |-> JNull, res |-> Ok,
                       fd |-> NoFd]]
    /\ UNCHANGED <<fs, prev, last>>

\* line 84
RenameCheckDir(p) ==
    /\ procs[p].pc = "rename_isdir"
    /\ IF os_path_isdir(fs, CONFIG_DIR)
       THEN Goto(p, "rename_old", Ok)
       ELSE Finish(p, DirectoryNotFound)
    /\ UNCHANGED <<fs, prev, last>>

\* lines 87 and 90
RenameCheckOld(p) ==
    /\ procs[p].pc = "rename_old"
    /\ IF ~os_path_exists(fs, file_path(procs[p].name)) THEN Finish(p, NotFound)
       ELSE IF procs[p].name = procs[p].new THEN Finish(p, Ok)
       ELSE Goto(p, "rename_new", Ok)
    /\ UNCHANGED <<fs, prev, last>>

Renamed(p, res) ==
    [NoCall EXCEPT !.op = "rename_config", !.name = procs[p].name,
                   !.new = procs[p].new, !.res = res]

\* line 93
RenameCheckNew(p) ==
    /\ procs[p].pc = "rename_new"
    /\ IF os_path_exists(fs, file_path(procs[p].new))
       THEN /\ Finish(p, AlreadyExists)
            /\ last' = Renamed(p, AlreadyExists)
            /\ prev' = fs
       ELSE /\ Goto(p, "rename_move", Ok)
            /\ UNCHANGED <<prev, last>>
    /\ UNCHANGED fs

\* A descriptor after a rename of the file at old to new: it stays on the
\* file it was opened on, which has moved, or has been replaced and unlinked
fd_after_rename(fd, old, new) ==
    IF fd.open /\ fd.path = old THEN [open |-> TRUE, path |-> new]
    ELSE IF fd.open /\ fd.path = new THEN NoFd
    ELSE fd

\* line 97
RenameMove(p) ==
    /\ procs[p].pc = "rename_move"
    /\ \E r \in {os_rename(fs, file_path(procs[p].name), file_path(procs[p].new))} :
          \E res \in {IF r.err = "none" THEN Ok
                      ELSE Raise("OSError", "Filesystem error while renaming")} :
              /\ fs' = r.fs
              /\ procs' = [q \in Procs |->
                             IF q = p THEN [procs[p] EXCEPT !.pc = "done", !.res = res]
                             ELSE IF r.err # "none" THEN procs[q]
                             ELSE [procs[q] EXCEPT !.fd =
                                     fd_after_rename(@, Lookup(fs, file_path(procs[p].name)).path,
                                                     Lookup(fs, file_path(procs[p].new)).path)]]
              /\ last' = Renamed(p, res)
              /\ prev' = fs

NextRace ==
    \E p \in Procs :
        \/ AddEnter(p) \/ AddCheckDir(p) \/ AddOpen(p) \/ AddDump(p)
        \/ RenameEnter(p) \/ RenameCheckDir(p) \/ RenameCheckOld(p)
        \/ RenameCheckNew(p) \/ RenameMove(p)

SpecRace == InitRace /\ [][NextRace]_vars

\* C22: whenever a rename_config(a, b), a # b, comes to its end and a
\* document is stored under b at that moment, in whatever interleaving with
\* another add_config or rename_config, the rename fails with AlreadyExists
\* and the document under b is as it was.
C22_NeverOverwrites ==
    [][\A p \in Procs :
          (/\ RenameCheckNew(p) \/ RenameMove(p)
           /\ procs'[p].pc = "done"
           /\ os_path_isfile(fs, file_path(procs[p].new)))
          => /\ procs'[p].res = AlreadyExists
             /\ open_r(fs', file_path(procs[p].new)) = open_r(fs, file_path(procs[p].new))]_vars


(***************************************************************************)
(* Concurrent runs of the field editor: two callers, each one call of      *)
(* update_config_field or delete_config_field on the document "a".  A      *)
(* caller's steps are the load with the change made in memory, the open    *)
(* for writing, which truncates the file, and the dump, which the close of *)
(* the with block writes through the caller's descriptor.  After a dump,   *)
(* last holds the call and, as data, the document it wrote.                *)
(***************************************************************************)
RacePaths == { <<"f">>, <<"g">>, <<"f", ".", "c">> }

\* The calls a caller may make: an update with a string or a number, a delete
FieldCalls ==
    {[op |-> "update_config_field", path |-> q, value |-> v] :
        q \in RacePaths, v \in {JStr(<<"v">>), JNum(1)}}
    \cup {[op |-> "delete_config_field", path |-> q, value |-> JNull] : q \in RacePaths}

InitFieldRace ==
    /\ fs \in {EditorFs(json_dump(OtherKeyDoc).toks), EditorFs(json_dump(NestedDoc).toks)}
    /\ prev = fs
    /\ last = NoCall
    /\ procs = [p \in Procs |-> Idle]

\* update_config_field or delete_config_field is called; data is the value
FieldEnter(p) ==
    /\ procs[p].pc = "start"
    /\ \E call \in FieldCalls :
          procs' = [procs EXCEPT ![p] =
                      [pc |-> "load", op |-> call.op, name |-> <<"a">>, new |-> <<>>,
                       path |-> call.path, data |-> call.value, res |-> Ok, fd |-> NoFd]]
    /\ UNCHANGED <<fs, prev, last>>

\* lines 84-94 and 109-121: from here on data is the changed document
FieldLoad(p) ==
    /\ procs[p].pc = "load"
    /\ \E l \in {_load_config_data(fs, procs[p].name)} :
          \E w \in {IF l.res # Ok THEN Walked("none", JNull)
                    ELSE IF procs[p].op = "update_config_field"
                         THEN update_walk(l.val, split(procs[p].path, "."), 1, procs[p].data)
                    ELSE delete_walk(l.val, split(procs[p].path, "."), 1)} :
              IF l.res # Ok THEN Finish(p, l.res)
              ELSE IF w.exc = "KeyError" THEN Finish(p, KeyNotFound)
              ELSE IF w.exc = "TypeError" THEN Finish(p, NotSubscriptable)
              ELSE procs' = [procs EXCEPT ![p].pc = "save_open", ![p].data = w.val]
    /\ UNCHANGED <<fs, prev, last>>

\* lines 44 and 47
FieldOpen(p) ==
    /\ procs[p].pc = "save_open"
    /\ \E r \in {_resolve_config_path(fs, procs[p].name)} :
          \E o \in {open_w(fs, r.path)} :
              IF r.res # Ok THEN fs' = fs /\ Finish(p, r.res)
              ELSE IF o.err # "none"
                   THEN fs' = fs /\ Finish(p, Raise("OSError", "Filesystem error while writing"))
              ELSE fs' = o.fs /\ Opened(p, "save_dump", o.fs, r.path)
    /\ UNCHANGED <<prev, last>>

\* line 48, and the return of lines 96-97 and 123-124
FieldDump(p) ==
    /\ procs[p].pc = "save_dump"
    /\ \E d \in {json_dump(procs[p].data)} :
          \E res \in {IF d.ok THEN Ok ELSE Raise("TypeError", "Object is not JSON serializable")} :
              /\ fs' = write_fd(fs, procs[p].fd, d.toks)
              /\ Finish(p, res)
              /\ last' = [NoCall EXCEPT !.op = procs[p].op, !.name = procs[p].name,
                                        !.path = procs[p].path, !.data = procs[p].data,
                                        !.res = res]
              /\ prev' = fs

NextFieldRace ==
    \E p \in Procs : FieldEnter(p) \/ FieldLoad(p) \/ FieldOpen(p) \/ FieldDump(p)

SpecFieldRace == InitFieldRace /\ [][NextFieldRace]_vars

\* Both callers have saved
BothSaved == \A p \in Procs : procs[p].pc = "done" /\ procs[p].res = Ok

\* C23: when two field mutations of the same document have both saved, in
\* whatever interleaving of their loads and saves, the stored document is the
\* whole document that the save which ran last wrote (so that the other
\* caller's change may be lost).
C23_LastSaveWins ==
    BothSaved
    => _load_config_data(fs, <<"a">>) = [res |-> Ok, val |-> last.data]


(***************************************************************************)
(* Runs of update_config_field alone, with paths that hold empty segments. *)
(***************************************************************************)
\* "", ".", "f.", "f" and "f..c": the segments of "" are one empty string
OddPaths == { <<>>, <<".">>, <<"f", ".">>, <<"f">>, <<"f", ".", ".", "c">> }

\* A string, a number, and a value json cannot serialise
OddValues == {JStr(<<"v">>), JNum(1), PyObj}

UpdateOddPath ==
    \E name \in EditorNames, path \in OddPaths, value \in OddValues :
        \E out \in {update_config_field(fs, name, path, value)} :
            /\ fs' = out.fs
            /\ prev' = fs
            /\ last' = CallField("update_config_field", name, path, value, out)
            /\ UNCHANGED procs

NextUpdate == UpdateOddPath

SpecUpdate == InitEdit /\ [][NextUpdate]_vars

InitialStoreFs ==
    { EmptyConfigDir,
      EmptyConfigDir @@ (SubSeq(Split(editor_CONFIG_DIR), 1, 1) :> Dir)
                     @@ (Split(editor_CONFIG_DIR) :> Dir) }

InitStore ==
    /\ fs \in InitialStoreFs
    /\ prev = fs
    /\ last = NoCall
    /\ procs = [p \in Procs |-> Idle]

NextStore == AddConfig \/ ReadField \/ GetFuzzCmd

SpecStore == InitStore /\ [][NextStore]_vars

\* C25: the store and the field editor use the same directory: the document
\* that add_config(n, d) has just created is the document the field editor
\* loads for n.
C25_SameDirectory ==
    (Called("add_config") /\ last.res = Ok /\ IsValidName(last.name))
    => _load_config_data(fs, last.name) = [res |-> Ok, val |-> last.data]


\* C26: a lookup whose field is stored returns a string, whatever the kind
\* of the stored value: the empty string for a false value ("", null, 0,
\* false, {} or []), and never a failure or a value that is not a string
\* for a true value that is not a string.
C26_AlwaysAString ==
    (/\ last.op \in CmdLookups
     /\ StoredBefore(last.name).res = Ok
     /\ CmdFieldBefore.found)
    => /\ last.res = Ok
       /\ last.val.t = "str"
       /\ ~truthy(CmdFieldBefore.val) => last.val = JStr(<<>>)


\* C27: from a configuration directory whose documents all have valid
\* identifiers, whatever names add_config, rename_config and delete_config
\* are called with, every stored document keeps an identifier matching
\* ^[A-Za-z0-9_-]+$, nothing exists outside the configuration directory, and
\* a rename that succeeded has a new name matching the pattern.
C27_NamesStayValid ==
    /\ OnlyValidStems(fs)
    /\ \A p \in DOMAIN fs : IsPrefix(<<CONFIG_DIR>>, p)
    /\ (Called("rename_config") /\ last.res = Ok /\ last.name # last.new)
       => IsValidName(last.new)

====
